---------------------------- MODULE Spec2Model ----------------------------
(***************************************************************************)
(* A model of the wormhole renderers of T-Lind/wormhole:                   *)
(*   src/wormhole_geodesic.cpp  the RK4 geodesic ray tracer                *)
(*   src/wormhole_sim.cpp       the refraction-portal tracer, its camera   *)
(*                              and its movie mode                         *)
(*                                                                         *)
(* Numbers.  The programs compute in IEEE single precision.  The model     *)
(* computes in fixed point: a length, a direction component or a momentum  *)
(* component x is held as the integer x * Scale, a colour channel as       *)
(* channel * ColorScale, and every division truncates toward zero (Div).   *)
(* Where the code's intermediate values would leave the 32-bit range of    *)
(* the model checker's integers, the operands are first divided by a       *)
(* common factor (Coarsen), which is the fixed-point counterpart of a      *)
(* float keeping a bounded number of significant digits.                   *)
(***************************************************************************)
EXTENDS Integers, Sequences, FiniteSets, TLC

\* Fixed-point resolution of lengths and directions: 1/Scale.
Scale == 10
\* Fixed-point resolution of the geodesic force coefficient: 1/CoefScale.
CoefScale == 1000
\* Largest |component| that enters a product without being coarsened first.
CoarseLimit == 1000

-----------------------------------------------------------------------------
(* Arithmetic helpers (glm / <cmath> counterparts)                         *)

Abs(x) == IF x < 0 THEN -x ELSE x
Max2(a, b) == IF a >= b THEN a ELSE b
Min2(a, b) == IF a <= b THEN a ELSE b

\* Division truncating toward zero, as the conversion of a quotient does.
Div(a, b) == IF a >= 0 THEN a \div b ELSE -((-a) \div b)

RECURSIVE SqrtIter(_, _, _)
SqrtIter(n, lo, hi) ==
    IF lo >= hi THEN lo
    ELSE LET mid == (lo + hi + 1) \div 2
         IN IF mid * mid <= n THEN SqrtIter(n, mid, hi)
                              ELSE SqrtIter(n, lo, mid - 1)

\* sqrt, rounded down.
ISqrt(n) == SqrtIter(n, 0, Min2(n, 46340))

\* vec3 operations
Vec(x, y, z) == <<x, y, z>>
VAdd(a, b) == <<a[1] + b[1], a[2] + b[2], a[3] + b[3]>>
VSub(a, b) == <<a[1] - b[1], a[2] - b[2], a[3] - b[3]>>
VNeg(a) == <<-a[1], -a[2], -a[3]>>
VMulDiv(a, num, den) == <<Div(a[1] * num, den), Div(a[2] * num, den), Div(a[3] * num, den)>>
Dot(a, b) == a[1] * b[1] + a[2] * b[2] + a[3] * b[3]
MaxAbs(a) == Max2(Abs(a[1]), Max2(Abs(a[2]), Abs(a[3])))

\* The factor by which operands of magnitude m are reduced before they are
\* multiplied together.
Coarsen(m) == 1 + (m \div CoarseLimit)

\* glm::normalize: v / |v|, a direction of length Scale.  The zero vector has
\* no direction (the code gets NaN components): ZeroDir stands for it.
ZeroDir == <<0, 0, 0>>
normalize(v) ==
    LET q == Coarsen(MaxAbs(v))
        w == VMulDiv(v, 1, q)
        n == ISqrt(Dot(w, w))
    IN IF n = 0 THEN ZeroDir ELSE VMulDiv(w, Scale, n)


\* t > 0.001f, for a distance t held as t * Scale.
EPS_NUM == 1
EPS_DEN == 1000
GtEps(t) == t * EPS_DEN > EPS_NUM * Scale

\* HitInfo::distance before any hit: 1e10f in both programs.  It is above every
\* distance the programs compute; the model holds it as the largest integer.
SENTINEL_DISTANCE == 2147483647

\* A vec3 that has not been assigned.
Unset == <<>>

(* The quadratic of a ray-sphere test: oc, a, b, c and the discriminant, and   *)
(* the two roots (-b -+ sqrt(discriminant)) / (2a) as distances * Scale.        *)
(* radius is in fixed point like the points.  A direction with a = 0 gives     *)
(* the code NaN roots, which fail every comparison: real is FALSE.             *)
SphereQuadratic(rayOrigin, rayDir, center, radius) ==
    LET oc0 == VSub(rayOrigin, center)
        q == Coarsen(Max2(MaxAbs(oc0), radius))
        oc == VMulDiv(oc0, 1, q)
        rq == Div(radius, q)
        a == Dot(rayDir, rayDir)
        b == 2 * Dot(oc, rayDir)
        c == Dot(oc, oc) - rq * rq
        discriminant == b * b - 4 * a * c
        sq == IF discriminant >= 0 THEN ISqrt(discriminant) ELSE 0
    IN [real |-> discriminant >= 0 /\ a > 0,
        t1 |-> IF a > 0 THEN Div((-b - sq) * Scale * q, 2 * a) ELSE 0,
        t2 |-> IF a > 0 THEN Div((-b + sq) * Scale * q, 2 * a) ELSE 0]

\* rayOrigin + rayDir * t
PointAt(rayOrigin, rayDir, t) == VAdd(rayOrigin, VMulDiv(rayDir, t, Scale))

-----------------------------------------------------------------------------
(* src/wormhole_geodesic.cpp                                               *)

GEO_THROAT_RADIUS == 25
step_size_num == 1
step_size_den == 2
max_steps == 1000
ESCAPE_DISTANCE == 20000
\* Colour channels are held as channel * ColorScale.
ColorScale == 1000

GeoSphere(c, r, col, em, u) ==
    [center |-> VMulDiv(c, Scale, 1), radius |-> r * Scale, color |-> col,
     isEmissive |-> em, universeID |-> u]

\* The scene main() builds.
GeoMainScene ==
    << GeoSphere(<<0, 5000, -6000>>, 1000, <<1000, 900, 700>>, TRUE, 1),
       GeoSphere(<<-80, 40, 0>>, 10, <<1000, 200, 200>>, FALSE, 1),
       GeoSphere(<<-120, 0, 0>>, 12, <<1000, 500, 0>>, FALSE, 1),
       GeoSphere(<<0, -7000, 8000>>, 1500, <<700, 800, 1000>>, TRUE, 2),
       GeoSphere(<<80, 40, 0>>, 18, <<1000, 1000, 200>>, FALSE, 2),
       GeoSphere(<<120, 0, 0>>, 22, <<1000, 1000, 1000>>, FALSE, 2) >>

\* A scene of two spheres only: a small light ahead of the camera in universe 1
\* and one plain sphere in universe 2.
GeoSmallScene ==
    << GeoSphere(<<0, 0, 50>>, 5, <<1000, 900, 700>>, TRUE, 1),
       GeoSphere(<<0, -60, 0>>, 5, <<200, 200, 1000>>, FALSE, 2) >>

GeoScenes == {GeoMainScene, GeoSmallScene}

\* What a read past the end of the sphere vector may return as a centre.
GarbageCenters == {<<0, 0, 0>>, <<0, 100 * Scale, 0>>}

\* What the never-assigned float GeodesicRay::l may hold.
LVals == {0, 60, -60}

\* (origin, direction) pairs handed to traceRay, in whole units and tenths.
GeoRayInputs ==
    { << <<0, 0, 80>>,      <<0, 0, -10>> >>,
      << <<0, 0, 80>>,      <<6, 0, -8>> >>,
      << <<-80, 40, 20>>,   <<0, 0, -10>> >>,
      << <<-80, 0, 0>>,     <<10, 0, 0>> >>,
      << <<0, 60, 0>>,      <<0, -10, 0>> >>,
      << <<0, 0, 10>>,      <<0, 0, -10>> >>,
      << <<0, 0, 19999>>,   <<0, 0, 10>> >> }

NoHit == [hit |-> FALSE, distance |-> SENTINEL_DISTANCE, normal |-> Unset,
          color |-> Unset, isEmissive |-> FALSE, index |-> 0]

\* GeoSphereTest with the universe test dropped.
GeoSphereTestAnyUniverse(closestHit, sphere, k, origin, direction, universe) ==
    LET qd == SphereQuadratic(origin, direction, sphere.center, sphere.radius)
        t == qd.t1
    IN IF qd.real /\ GtEps(t) /\ t < closestHit.distance
       THEN [hit |-> TRUE, distance |-> t,
             normal |-> normalize(VSub(PointAt(origin, direction, t), sphere.center)),
             color |-> sphere.color, isEmissive |-> sphere.isEmissive, index |-> k]
       ELSE closestHit

\* One pass of the loop body of intersectScene for spheres[k]; index is the
\* position of the sphere that produced the hit (not a field of the code's HitInfo).
GeoSphereTest(closestHit, sphere, k, origin, direction, universe) ==
    IF sphere.universeID = universe
    THEN LET qd == SphereQuadratic(origin, direction, sphere.center, sphere.radius)
             t == qd.t1
         IN IF qd.real /\ GtEps(t) /\ t < closestHit.distance
            THEN [hit |-> TRUE, distance |-> t,
                  normal |-> normalize(VSub(PointAt(origin, direction, t), sphere.center)),
                  color |-> sphere.color, isEmissive |-> sphere.isEmissive, index |-> k]
            ELSE closestHit
    ELSE closestHit

RECURSIVE GeoScan(_, _, _, _, _, _)
GeoScan(scene, k, closestHit, origin, direction, universe) ==
    IF k > Len(scene) THEN closestHit
    ELSE GeoScan(scene, k + 1,
                 GeoSphereTest(closestHit, scene[k], k, origin, direction, universe),
                 origin, direction, universe)

intersectScene(scene, origin, direction, universe) ==
    GeoScan(scene, 1, NoHit, origin, direction, universe)

\* -(THROAT_RADIUS^2 * l / r^3), times CoefScale; l in whole units.
GeoCoef(l) ==
    LET r == ISqrt(l * l + GEO_THROAT_RADIUS * GEO_THROAT_RADIUS)
        r3 == r * r * r
    IN -Div(GEO_THROAT_RADIUS * GEO_THROAT_RADIUS * l * CoefScale, r3)

\* derivatives(ray): reads ray.l, ray.pos and ray.momentum.
derivatives(ray) ==
    [pos |-> ray.momentum,
     momentum |-> VMulDiv(ray.pos, GeoCoef(ray.l), CoefScale)]

\* One RK4 step of traceRay: the new pos and momentum of geoRay.  k1 is taken at
\* geoRay, k2..k4 at temp, whose l is templ.
RK4Step(ray, templ) ==
    LET h2n == step_size_num
        h2d == 2 * step_size_den
        k1 == derivatives(ray)
        temp1 == [pos |-> VAdd(ray.pos, VMulDiv(k1.pos, h2n, h2d)),
                  momentum |-> VAdd(ray.momentum, VMulDiv(k1.momentum, h2n, h2d)),
                  l |-> templ]
        k2 == derivatives(temp1)
        temp2 == [pos |-> VAdd(ray.pos, VMulDiv(k2.pos, h2n, h2d)),
                  momentum |-> VAdd(ray.momentum, VMulDiv(k2.momentum, h2n, h2d)),
                  l |-> templ]
        k3 == derivatives(temp2)
        temp3 == [pos |-> VAdd(ray.pos, VMulDiv(k3.pos, step_size_num, step_size_den)),
                  momentum |-> VAdd(ray.momentum, VMulDiv(k3.momentum, step_size_num, step_size_den)),
                  l |-> templ]
        k4 == derivatives(temp3)
        sumPos == VAdd(VAdd(k1.pos, VMulDiv(k2.pos, 2, 1)), VAdd(VMulDiv(k3.pos, 2, 1), k4.pos))
        sumMom == VAdd(VAdd(k1.momentum, VMulDiv(k2.momentum, 2, 1)),
                       VAdd(VMulDiv(k3.momentum, 2, 1), k4.momentum))
    IN [ray EXCEPT !.pos = VAdd(ray.pos, VMulDiv(sumPos, step_size_num, 6 * step_size_den)),
                   !.momentum = VAdd(ray.momentum, VMulDiv(sumMom, step_size_num, 6 * step_size_den))]

\* dist_from_center_sq < THROAT_RADIUS * THROAT_RADIUS
InsideThroat(pos) ==
    /\ MaxAbs(pos) < GEO_THROAT_RADIUS * Scale
    /\ Dot(pos, pos) < (GEO_THROAT_RADIUS * Scale) * (GEO_THROAT_RADIUS * Scale)

\* dist_from_center_sq > 20000.0f * 20000.0f, evaluated in whole units.
Escaped(pos) ==
    LET u == VMulDiv(pos, 1, Scale)
    IN \/ MaxAbs(u) > ESCAPE_DISTANCE
       \/ Dot(u, u) > ESCAPE_DISTANCE * ESCAPE_DISTANCE

\* FlipUniverse with the fault of a flip that cannot return to universe 1.
FlipUniverseOneWay(u) == IF u = 1 THEN 2 ELSE 2
\* geoRay.universe = (geoRay.universe == 1) ? 2 : 1
FlipUniverse(u) == IF u = 1 THEN 2 ELSE 1

\* LoopCond with an off-by-one fault: one iteration too many.
LoopCondInclusive(i) == i <= max_steps
\* for (int i = 0; i < max_steps; ++i)
LoopCond(i) == i < max_steps

\* hit.hit && hit.distance < step_size * 2.0f
HitIsNear(hit) == hit.hit /\ hit.distance * step_size_den < 2 * step_size_num * Scale

\* spheres[0].center or spheres[3].center; a set, because an index past the end
\* of the vector reads whatever lies there.
SunPositions(scene, universe) ==
    LET k == IF universe = 1 THEN 1 ELSE 4
    IN IF k <= Len(scene) THEN {scene[k].center} ELSE GarbageCenters

\* hit.color * (0.2f + 0.8f * diffuse)
GeoShade(hit, hitPoint, sunPos) ==
    IF hit.isEmissive THEN hit.color
    ELSE LET lightDir == normalize(VSub(sunPos, hitPoint))
             diffuse == Max2(0, Dot(hit.normal, lightDir))
         IN VMulDiv(hit.color, 2 * Scale * Scale + 8 * diffuse, 10 * Scale * Scale)

\* A background that is not black.
FAINT_GREY == <<50, 50, 50>>
\* vec3(0.0, 0.0, 0.0)
BLACK == <<0, 0, 0>>

VARIABLES
    geoScene,      \* the global vector spheres
    geoRay,        \* GeodesicRay geoRay: pos, momentum, universe, l
    tempL,         \* GeodesicRay temp: its l
    gi,            \* the loop counter i
    gpc,           \* where traceRay is: "check", "rk4", "post", "done"
    gColor,        \* the value traceRay returned
    gEnd,          \* how it ended: "hit", "escape", "budget"
    nDerivs,       \* calls of derivatives so far
    nTeleports,    \* teleports so far
    travFlips,     \* teleports since the position was last outside the throat sphere
    fromOutside,   \* the position has been outside the throat sphere
    lastTravFlips, \* teleports of the last traversal (entered, then left) that ended
    currentUniverse, \* wormhole_sim.cpp: int currentUniverse
    pScene,        \* wormhole_sim.cpp: the global vectors spheres and cubes
    pAltScene,     \* a second scene with the same primitives in the traced universe
    pRay,          \* the last call of the portal traceRay: origin, direction, universe
    pResult,       \* what it returned on pScene
    pAltResult,    \* what it returned on pAltScene
    camera,        \* wormhole_sim.cpp: Camera camera
    camOps,        \* camera mutations so far
    camLastOp,     \* the last camera mutation and its arguments
    mouseHist,     \* the left button is held, and whether Shift was down at its press
    qProgram,      \* the program whose scene query ran last: "portal" or "geodesic"
    qScene,        \* the scene it ran on
    qRay,          \* its origin, direction and universe
    qResult,       \* the HitInfo it returned
    mFile,         \* camera_path.txt: "unopenable", its lines, or "closed" once read
    movieKeys,     \* std::vector<Keyframe> keys
    mpc,           \* where movie mode is
    loadOk,        \* what loadCameraPath returned
    totalFrames,   \* int totalFrames
    frameI,        \* the frame loop's i
    keyframe_idx,  \* size_t keyframe_idx (0-based, as in the code)
    sel,           \* the frame's a, b (0-based indices) and fraction t = num / den
    nComputed,     \* frames whose compute pass has started
    nRead,         \* frames whose pixels have been read back
    frameFiles,    \* std::vector<std::string> frameFiles
    playK,         \* playback: files of frameFiles gone through
    lastShown,     \* playback: the file shown last
    gmPc,          \* where the geodesic main is: "setup", "loop", "save"
    pixels,        \* vector<unsigned char> pixels, "unwritten" where never written
    pixWrites,     \* for each entry of pixels, the pixels that wrote it
    pixColor,      \* the bytes each pixel's traced colour comes to
    nextRow,       \* the next scanline the dynamic schedule hands out
    workers,       \* per thread: its scanline y, its x, and whether it is running
    iPc,           \* where the interactive loop is
    iFrames,       \* frames the interactive loop has rendered
    iSnapshot      \* camera, universe and scene as computePixels found them

geoVars == <<geoScene, geoRay, tempL, gi, gpc, gColor, gEnd, nDerivs, nTeleports,
             travFlips, fromOutside, lastTravFlips>>
portalVars == <<currentUniverse, pScene, pAltScene, pRay, pResult, pAltResult>>
camVars == <<camera, camOps, camLastOp, mouseHist>>
queryVars == <<qProgram, qScene, qRay, qResult>>
movieVars == <<mFile, movieKeys, mpc, loadOk, totalFrames, frameI, keyframe_idx, sel,
               nComputed, nRead, frameFiles, playK, lastShown>>
pixelVars == <<gmPc, pixels, pixWrites, pixColor, nextRow, workers>>
loopVars == <<iPc, iFrames, iSnapshot>>
vars == <<geoVars, portalVars, camVars, queryVars, movieVars, pixelVars, loopVars>>

\* The parts of the state a specification does not run.
GeoIdle ==
    /\ geoScene = <<>> /\ geoRay = <<>> /\ tempL = 0 /\ gi = 0 /\ gpc = "idle"
    /\ gColor = <<>> /\ gEnd = "none" /\ nDerivs = 0 /\ nTeleports = 0
    /\ travFlips = 0 /\ fromOutside = FALSE /\ lastTravFlips = 0
PortalIdle ==
    /\ currentUniverse = 1 /\ pScene = <<>> /\ pAltScene = <<>> /\ pRay = <<>>
    /\ pResult = <<>> /\ pAltResult = <<>>
CamIdle == camera = <<>> /\ camOps = 0 /\ camLastOp = <<>> /\ mouseHist = <<>>
QueryIdle == qProgram = "none" /\ qScene = <<>> /\ qRay = <<>> /\ qResult = <<>>
MovieIdle ==
    /\ mFile = "closed" /\ movieKeys = <<>> /\ mpc = "idle" /\ loadOk = FALSE
    /\ totalFrames = 0 /\ frameI = 0 /\ keyframe_idx = 0 /\ sel = <<>>
    /\ nComputed = 0 /\ nRead = 0 /\ frameFiles = <<>> /\ playK = 0 /\ lastShown = <<>>
PixelIdle ==
    /\ gmPc = "idle" /\ pixels = <<>> /\ pixWrites = <<>> /\ pixColor = <<>>
    /\ nextRow = 0 /\ workers = <<>>
LoopIdle == iPc = "idle" /\ iFrames = 0 /\ iSnapshot = <<>>

\* traceRay up to the loop: geoRay is set up from origin and direction; l is
\* left unassigned in geoRay and in every temp.
GeoInit ==
    /\ geoScene \in GeoScenes
    /\ \E in \in GeoRayInputs, lg \in LVals :
          /\ geoRay = [pos |-> VMulDiv(in[1], Scale, 1),
                       momentum |-> VMulDiv(in[2], Scale, 10),
                       universe |-> 1, l |-> lg]
          /\ fromOutside = ~InsideThroat(VMulDiv(in[1], Scale, 1))
    /\ tempL \in LVals
    /\ gi = 0
    /\ gpc = "check"
    /\ gColor = Unset
    /\ gEnd = "none"
    /\ nDerivs = 0
    /\ nTeleports = 0
    /\ travFlips = 0
    /\ lastTravFlips = 0

\* Top of the loop body: the intersection test before the step.
GeoCheck ==
    /\ gpc = "check"
    /\ LoopCond(gi)
    /\ LET dir == normalize(geoRay.momentum)
           hit == intersectScene(geoScene, geoRay.pos, dir, geoRay.universe)
       IN IF HitIsNear(hit)
          THEN /\ \E sunPos \in (IF hit.isEmissive THEN {BLACK}
                                 ELSE SunPositions(geoScene, geoRay.universe)) :
                     gColor' = GeoShade(hit, PointAt(geoRay.pos, dir, hit.distance), sunPos)
               /\ gpc' = "done"
               /\ gEnd' = "hit"
          ELSE /\ gpc' = "rk4"
               /\ UNCHANGED <<gColor, gEnd>>
    /\ UNCHANGED <<geoScene, geoRay, tempL, gi, nDerivs, nTeleports, travFlips,
                   fromOutside, lastTravFlips>>
    /\ UNCHANGED <<portalVars, camVars, queryVars, movieVars, pixelVars, loopVars>>

\* The RK4 integration step.
GeoRK4 ==
    /\ gpc = "rk4"
    /\ geoRay' = RK4Step(geoRay, tempL)
    /\ nDerivs' = nDerivs + 4
    /\ gpc' = "post"
    /\ UNCHANGED <<geoScene, tempL, gi, gColor, gEnd, nTeleports, travFlips,
                   fromOutside, lastTravFlips>>
    /\ UNCHANGED <<portalVars, camVars, queryVars, movieVars, pixelVars, loopVars>>

\* Wormhole traversal and escape tests, then ++i.
GeoPost ==
    /\ gpc = "post"
    /\ LET inside == InsideThroat(geoRay.pos)
           escaped == Escaped(geoRay.pos)
       IN /\ IF inside
             THEN /\ geoRay' = [geoRay EXCEPT !.pos = VNeg(geoRay.pos),
                                               !.universe = FlipUniverse(geoRay.universe)]
                  /\ nTeleports' = nTeleports + 1
                  /\ travFlips' = travFlips + 1
                  /\ UNCHANGED <<fromOutside, lastTravFlips>>
             ELSE /\ UNCHANGED <<geoRay, nTeleports>>
                  /\ travFlips' = 0
                  /\ fromOutside' = TRUE
                  /\ lastTravFlips' = IF travFlips > 0 /\ fromOutside
                                      THEN travFlips ELSE lastTravFlips
          /\ IF escaped
             THEN /\ gpc' = "done"
                  /\ gColor' = BLACK
                  /\ gEnd' = "escape"
                  /\ UNCHANGED gi
             ELSE /\ gpc' = "check"
                  /\ gi' = gi + 1
                  /\ UNCHANGED <<gColor, gEnd>>
    /\ UNCHANGED <<geoScene, tempL, nDerivs>>
    /\ UNCHANGED <<portalVars, camVars, queryVars, movieVars, pixelVars, loopVars>>

\* The loop ends with the budget used up: return vec3(0.0, 0.0, 0.0).
GeoBudget ==
    /\ gpc = "check"
    /\ ~LoopCond(gi)
    /\ gpc' = "done"
    /\ gColor' = BLACK
    /\ gEnd' = "budget"
    /\ UNCHANGED <<geoScene, geoRay, tempL, gi, nDerivs, nTeleports, travFlips,
                   fromOutside, lastTravFlips>>
    /\ UNCHANGED <<portalVars, camVars, queryVars, movieVars, pixelVars, loopVars>>

GeoNext == GeoCheck \/ GeoRK4 \/ GeoPost \/ GeoBudget

\* The geodesic program alone.
InitGeo ==
    GeoInit /\ PortalIdle /\ CamIdle /\ QueryIdle /\ MovieIdle /\ PixelIdle /\ LoopIdle

SpecGeo == InitGeo /\ [][GeoNext]_vars

-----------------------------------------------------------------------------
(* src/wormhole_sim.cpp: scene objects and the portal traceRay              *)

THROAT_RADIUS == 15
THROAT_CENTER == <<0, 0, 0>>

\* Floats beyond the reals.  POS_INF and NEG_INF order like integers; NAN fails
\* every comparison (FLt, FGt).
POS_INF == 1073741823
NEG_INF == -1073741823
NAN == -2147483647
FLt(x, y) == x # NAN /\ y # NAN /\ x < y
FGt(x, y) == FLt(y, x)
\* glm::min(x, y) is (y < x) ? y : x and glm::max(x, y) is (x < y) ? y : x.
FMin(x, y) == IF FLt(y, x) THEN y ELSE x
FMax(x, y) == IF FLt(x, y) THEN y ELSE x
\* x > 0.001f and x < 0.001f for a float that may be infinite or NaN.
FGtEps(x) == x # NAN /\ x # NEG_INF /\ (x = POS_INF \/ GtEps(x))
FLtEps(x) == x # NAN /\ x # POS_INF /\ (x = NEG_INF \/ x * EPS_DEN < EPS_NUM * Scale)
\* glm::sign
Sign(x) == IF x > 0 THEN 1 ELSE IF x < 0 THEN -1 ELSE 0

PSphere(c, r, col) == [center |-> VMulDiv(c, Scale, 1), radius |-> r * Scale, color |-> col]
PCube(c, sz, col) == [center |-> VMulDiv(c, Scale, 1), size |-> sz * Scale, color |-> col]

NoIntersection == [hit |-> FALSE, t |-> NAN, normal |-> Unset]

\* Sphere::intersect with the larger root tried first.
SphereIntersectFarFirst(sphere, rayOrigin, rayDir) ==
    LET qd == SphereQuadratic(rayOrigin, rayDir, sphere.center, sphere.radius)
    IN IF ~qd.real THEN NoIntersection
       ELSE IF GtEps(qd.t2)
       THEN [hit |-> TRUE, t |-> qd.t2,
             normal |-> normalize(VSub(PointAt(rayOrigin, rayDir, qd.t2), sphere.center))]
       ELSE NoIntersection

\* Sphere::intersect
SphereIntersect(sphere, rayOrigin, rayDir) ==
    LET qd == SphereQuadratic(rayOrigin, rayDir, sphere.center, sphere.radius)
    IN IF ~qd.real THEN NoIntersection
       ELSE IF GtEps(qd.t1)
       THEN [hit |-> TRUE, t |-> qd.t1,
             normal |-> normalize(VSub(PointAt(rayOrigin, rayDir, qd.t1), sphere.center))]
       ELSE IF GtEps(qd.t2)
       THEN [hit |-> TRUE, t |-> qd.t2,
             normal |-> normalize(VSub(PointAt(rayOrigin, rayDir, qd.t2), sphere.center))]
       ELSE NoIntersection

\* (bound - origin) * (1 / dir) for one axis; 1 / 0 is +inf.
SlabT(bound, o, d) ==
    IF d # 0 THEN Div((bound - o) * Scale, d)
    ELSE IF bound - o > 0 THEN POS_INF
    ELSE IF bound - o < 0 THEN NEG_INF
    ELSE NAN

\* Cube::intersect
CubeIntersect(cube, rayOrigin, rayDir) ==
    LET half == Div(cube.size, 2)
        minBound == VSub(cube.center, <<half, half, half>>)
        maxBound == VAdd(cube.center, <<half, half, half>>)
        t0 == [i \in 1..3 |-> SlabT(minBound[i], rayOrigin[i], rayDir[i])]
        t1 == [i \in 1..3 |-> SlabT(maxBound[i], rayOrigin[i], rayDir[i])]
        tmin == [i \in 1..3 |-> FMin(t0[i], t1[i])]
        tmax == [i \in 1..3 |-> FMax(t0[i], t1[i])]
        tNear == FMax(FMax(tmin[1], tmin[2]), tmin[3])
        tFar == FMin(FMin(tmax[1], tmax[2]), tmax[3])
        t == IF FGtEps(tNear) THEN tNear ELSE tFar
        finite == t # NAN /\ t # POS_INF /\ t # NEG_INF
        hitPoint == PointAt(rayOrigin, rayDir, t)
        d == VSub(hitPoint, cube.center)
        absD == <<Abs(d[1]), Abs(d[2]), Abs(d[3])>>
    IN IF FGt(tNear, tFar) \/ FLtEps(tFar) THEN NoIntersection
       ELSE IF ~finite THEN [hit |-> TRUE, t |-> t, normal |-> <<0, 0, 0>>]
       ELSE IF absD[1] > absD[2] /\ absD[1] > absD[3]
       THEN [hit |-> TRUE, t |-> t, normal |-> <<Sign(d[1]), 0, 0>>]
       ELSE IF absD[2] > absD[3]
       THEN [hit |-> TRUE, t |-> t, normal |-> <<0, Sign(d[2]), 0>>]
       ELSE [hit |-> TRUE, t |-> t, normal |-> <<0, 0, Sign(d[3])>>]

\* WormholeThroat::intersect; t stays unassigned (NAN here) when it returns false.
ThroatIntersect(rayOrigin, rayDir) ==
    LET qd == SphereQuadratic(rayOrigin, rayDir, THROAT_CENTER, THROAT_RADIUS * Scale)
    IN IF ~qd.real THEN [hit |-> FALSE, t |-> NAN]
       ELSE IF GtEps(qd.t1) THEN [hit |-> TRUE, t |-> qd.t1]
       ELSE IF GtEps(qd.t2) THEN [hit |-> TRUE, t |-> qd.t2]
       ELSE [hit |-> FALSE, t |-> NAN]

\* HitInfo hitInfo; index and kind name the primitive that set it (they are not
\* fields of the code's HitInfo).
PNoHit == [hit |-> FALSE, distance |-> SENTINEL_DISTANCE, normal |-> Unset,
           color |-> Unset, index |-> 0, kind |-> "none"]

\* The body of one of traceScene's two loops, for one primitive.
PrimitiveTest(hitInfo, isect, color, k, kind) ==
    IF isect.hit /\ FLt(isect.t, hitInfo.distance)
    THEN [hit |-> TRUE, distance |-> isect.t, normal |-> isect.normal,
          color |-> color, index |-> k, kind |-> kind]
    ELSE hitInfo

RECURSIVE ScanSpheres(_, _, _, _, _)
ScanSpheres(list, k, hitInfo, origin, direction) ==
    IF k > Len(list) THEN hitInfo
    ELSE ScanSpheres(list, k + 1,
             PrimitiveTest(hitInfo, SphereIntersect(list[k], origin, direction),
                           list[k].color, k, "sphere"),
             origin, direction)

RECURSIVE ScanCubes(_, _, _, _, _)
ScanCubes(list, k, hitInfo, origin, direction) ==
    IF k > Len(list) THEN hitInfo
    ELSE ScanCubes(list, k + 1,
             PrimitiveTest(hitInfo, CubeIntersect(list[k], origin, direction),
                           list[k].color, k, "cube"),
             origin, direction)

\* traceScene with the universe test dropped: both lists are scanned.
traceSceneAnyUniverse(scene, origin, direction, universe) ==
    ScanCubes(scene.cubes, 1, ScanSpheres(scene.spheres, 1, PNoHit, origin, direction),
              origin, direction)

\* traceScene(origin, direction, universe); scene holds the globals spheres and cubes.
traceScene(scene, origin, direction, universe) ==
    IF universe = 1
    THEN ScanSpheres(scene.spheres, 1, PNoHit, origin, direction)
    ELSE ScanCubes(scene.cubes, 1, PNoHit, origin, direction)

\* x^32 for x in [0, 1] held as x * ColorScale.
Sq(x) == Div(x * x, ColorScale)
Pow32(x) == Sq(Sq(Sq(Sq(Sq(x)))))

\* glm::reflect(I, N) = I - 2 dot(N, I) N
reflect(I, N) == VSub(I, VMulDiv(N, 2 * Dot(N, I), Scale * Scale))

\* glm::refract(I, N, eta) with eta = etaNum / etaDen
refract(I, N, etaNum, etaDen) ==
    LET dotNI == Dot(N, I)
        c2 == Div(dotNI * dotNI, Scale * Scale)
        k == Scale * Scale - Div(etaNum * etaNum * (Scale * Scale - c2), etaDen * etaDen)
    IN IF k < 0 THEN <<0, 0, 0>>
       ELSE VSub(VMulDiv(I, etaNum, etaDen),
                 VMulDiv(N, Div(etaNum * dotNI, etaDen * Scale) + ISqrt(k), Scale))

\* glm::mix(x, y, a) = x (1 - a) + y a, a held as a * ColorScale
mix(x, y, a) ==
    <<Div(x[1] * (ColorScale - a) + y[1] * a, ColorScale),
      Div(x[2] * (ColorScale - a) + y[2] * a, ColorScale),
      Div(x[3] * (ColorScale - a) + y[3] * a, ColorScale)>>

\* The diffuse + specular shading traceRay applies to a hit, in both branches.
PortalShade(hit, origin, direction) ==
    LET viewDir == normalize(VSub(origin, PointAt(origin, direction, hit.distance)))
        lightDir == normalize(<<Scale, Scale, Scale>>)
        diffuse == Max2(0, Dot(hit.normal, lightDir))
        reflectDir == reflect(VNeg(lightDir), hit.normal)
        spec == Pow32(Div(Max2(Dot(viewDir, reflectDir), 0) * ColorScale, Scale * Scale))
        k == 3 * Scale * Scale + 7 * diffuse
    IN <<Div(hit.color[1] * k, 10 * Scale * Scale) + Div(spec, 2),
         Div(hit.color[2] * k, 10 * Scale * Scale) + Div(spec, 2),
         Div(hit.color[3] * k, 10 * Scale * Scale) + Div(spec, 2)>>

\* star.data.w * smoothstep(0.005, 0, acos(dot)) for one star: with
\* x = 1 - dot, acos(dot) is sqrt(2x) to first order, and the star shows only
\* where that is below fov_factor = 1/200.  A dot above 1 gives acos NaN and
\* an intensity that fails intensity > 0.
StarIntensity(star, direction) ==
    LET dt == Dot(direction, star.dir)
        x == Scale * Scale - dt
        u == ColorScale - Div(200 * ColorScale * ISqrt(2 * x), Scale)
    IN IF x < 0 \/ x > Scale * Scale THEN 0
       ELSE IF u <= 0 THEN 0
       ELSE Div(star.brightness * Div(Sq(u) * (3 * ColorScale - 2 * u), ColorScale), ColorScale)

RECURSIVE StarSum(_, _, _)
StarSum(starList, k, direction) ==
    IF k > Len(starList) THEN 0
    ELSE StarIntensity(starList[k], direction) + StarSum(starList, k + 1, direction)

\* getStarfieldColor(direction)
getStarfieldColor(starList, direction) ==
    LET v == StarSum(starList, 1, direction) IN <<v, v, v>>

\* Case 3 of traceRay: the local background of universe u.
LocalBackground(starList, direction, u) ==
    IF u = 1 THEN getStarfieldColor(starList, direction)
    ELSE mix(<<20, 10, 10>>, <<300, 100, 200>>,
             Div((direction[2] + Scale) * ColorScale, 2 * Scale))

\* IsLocalCase with the distance comparison dropped: a ray that meets the
\* throat always enters it.
IsLocalCaseThroatFirst(sceneHit, throatHit) ==
    sceneHit.hit /\ ~throatHit.hit
\* traceRay, Case 1: sceneHit.hit && (!hitsThroat || sceneHit.distance < t_throat)
IsLocalCase(sceneHit, throatHit) ==
    sceneHit.hit /\ (~throatHit.hit \/ FLt(sceneHit.distance, throatHit.t))

OtherUniverse(u) == IF u = 1 THEN 2 ELSE 1

\* traceRay, Case 2: where the ray meets the throat and where it goes on.
ThroatEntry(origin, direction, t_throat) ==
    LET P_in == PointAt(origin, direction, t_throat)
        hit_normal == normalize(VSub(P_in, THROAT_CENTER))
        f == ColorScale - Div(Abs(Dot(direction, hit_normal)) * ColorScale, Scale * Scale)
        refracted_dir == refract(direction, hit_normal, 2, 3)
    IN [fresnel |-> Div(Div(f * f, ColorScale) * f, ColorScale),
        refracted_dir |-> refracted_dir,
        new_origin |-> VAdd(VSub(P_in, VMulDiv(hit_normal, 2 * THROAT_RADIUS * Scale, Scale)),
                            VMulDiv(refracted_dir, 1, 10))]

\* traceRay, Case 2, from otherSceneHit on: the colour seen through the throat.
ThroatCaseFrom(otherSceneHit, entry, starList, u) ==
    LET final_color == IF otherSceneHit.hit
                       THEN PortalShade(otherSceneHit, entry.new_origin, entry.refracted_dir)
                       ELSE getStarfieldColor(starList, entry.refracted_dir)
    IN [case |-> "throat",
        color |-> mix(final_color, <<500, 800, 1000>>, Div(entry.fresnel * 8, 10)),
        otherHit |-> otherSceneHit.hit,
        behind |-> final_color,
        refracted |-> entry.refracted_dir,
        queried |-> {u, OtherUniverse(u)}]

\* traceRay, Case 2.  queried lists the universes whose primitives were scanned.
ThroatCase(scene, starList, origin, direction, u, t_throat) ==
    LET entry == ThroatEntry(origin, direction, t_throat)
    IN ThroatCaseFrom(traceScene(scene, entry.new_origin, entry.refracted_dir,
                                 OtherUniverse(u)),
                      entry, starList, u)

\* PortalCaseOf with the hit flags left out of the tests: the distances decide.
PortalCaseOfByDistance(throatHit, sceneHit) ==
    IF FLt(sceneHit.distance, throatHit.t) THEN "local"
    ELSE IF throatHit.t # NAN THEN "throat"
    ELSE "background"
\* Which of traceRay's three cases returns, from hitsThroat, t_throat and sceneHit.
PortalCaseOf(throatHit, sceneHit) ==
    IF IsLocalCase(sceneHit, throatHit) THEN "local"
    ELSE IF throatHit.hit THEN "throat"
    ELSE "background"

\* traceRay(origin, direction) of the portal program, with currentUniverse = u.
PortalTraceRay(scene, starList, origin, direction, u) ==
    LET throatHit == ThroatIntersect(origin, direction)
        sceneHit == traceScene(scene, origin, direction, u)
        case == PortalCaseOf(throatHit, sceneHit)
    IN IF case = "local"
       THEN [case |-> "local", color |-> PortalShade(sceneHit, origin, direction),
             otherHit |-> FALSE, behind |-> Unset, refracted |-> Unset, queried |-> {u}]
       ELSE IF case = "throat"
       THEN ThroatCase(scene, starList, origin, direction, u, throatHit.t)
       ELSE [case |-> "background", color |-> LocalBackground(starList, direction, u),
             otherHit |-> FALSE, behind |-> Unset, refracted |-> Unset, queried |-> {u}]

\* generateStars fills stars with random unit directions and brightnesses in
\* [0.5, 1]; three of them stand for the list.
Stars ==
    << [dir |-> <<0, 0, -10>>, brightness |-> 800],
       [dir |-> <<6, 0, -8>>, brightness |-> 600],
       [dir |-> <<0, -10, 0>>, brightness |-> 500] >>

\* The two lists main() builds.
MainSpheres ==
    << PSphere(<<-80, 40, 0>>, 10, <<1000, 200, 200>>),
       PSphere(<<-80, -40, 0>>, 10, <<200, 1000, 200>>),
       PSphere(<<-100, 0, 50>>, 10, <<200, 200, 1000>>),
       PSphere(<<-120, 0, 0>>, 12, <<1000, 500, 0>>) >>
MainCubes ==
    << PCube(<<80, 40, 0>>, 18, <<1000, 1000, 200>>),
       PCube(<<80, -40, 0>>, 18, <<1000, 200, 1000>>),
       PCube(<<100, 0, 50>>, 18, <<200, 1000, 1000>>),
       PCube(<<120, 0, 0>>, 22, <<1000, 1000, 1000>>) >>

\* Lists with a primitive whose surface meets the throat's on the z axis, and
\* lists with one primitive in front of the throat and one behind it.
TieSpheres == << PSphere(<<0, 0, 5>>, 10, <<1000, 200, 200>>) >>
TieCubes == << PCube(<<0, 0, 5>>, 20, <<1000, 1000, 200>>) >>
FrontSpheres ==
    << PSphere(<<0, 0, -40>>, 5, <<200, 1000, 200>>),
       PSphere(<<0, 0, 40>>, 5, <<200, 200, 1000>>) >>
FrontCubes ==
    << PCube(<<0, 0, -60>>, 18, <<1000, 200, 1000>>),
       PCube(<<0, 0, 40>>, 10, <<200, 1000, 1000>>) >>

PortalScenes ==
    { [spheres |-> sl, cubes |-> cl] :
        sl \in {MainSpheres, TieSpheres, FrontSpheres},
        cl \in {MainCubes, TieCubes, FrontCubes} }

\* (origin, direction) pairs handed to the portal traceRay and to traceScene,
\* in whole units and tenths.
PortalRays ==
    { << <<0, 0, 80>>,    <<0, 0, -10>> >>,
      << <<0, 0, 80>>,    <<6, 0, -8>> >>,
      << <<-80, 40, 80>>, <<0, 0, -10>> >>,
      << <<80, 40, 80>>,  <<0, 0, -10>> >>,
      << <<0, 80, 0>>,    <<0, -10, 0>> >>,
      << <<0, 0, 80>>,    <<0, 6, 8>> >>,
      << <<0, 0, 10>>,    <<0, 0, -10>> >>,
      << <<0, 10, 80>>,   <<0, 0, -10>> >> }

\* The primitives of universe u in a portal scene.
PrimitivesOf(scene, u) == IF u = 1 THEN scene.spheres ELSE scene.cubes

PortalInit ==
    /\ currentUniverse = 1
    /\ pScene \in PortalScenes
    /\ pAltScene = pScene
    /\ pRay = <<>>
    /\ pResult = <<>>
    /\ pAltResult = <<>>

\* traceRay(origin, direction) for one ray, on the scene and on a scene that
\* differs from it in the other universe's primitives only.
PortalRender ==
    /\ \E in \in PortalRays :
          /\ pRay' = [origin |-> VMulDiv(in[1], Scale, 1), direction |-> in[2],
                      universe |-> currentUniverse]
          /\ pResult' = PortalTraceRay(pScene, Stars, VMulDiv(in[1], Scale, 1), in[2],
                                       currentUniverse)
          /\ \E alt \in PortalScenes :
                /\ PrimitivesOf(alt, currentUniverse) = PrimitivesOf(pScene, currentUniverse)
                /\ pAltScene' = alt
                /\ pAltResult' = PortalTraceRay(alt, Stars, VMulDiv(in[1], Scale, 1), in[2],
                                                currentUniverse)
    /\ UNCHANGED <<currentUniverse, pScene>>
    /\ UNCHANGED <<geoVars, camVars, queryVars, movieVars, pixelVars, loopVars>>

\* keyCallback, GLFW_KEY_U pressed
KeyCallbackU ==
    /\ currentUniverse' = OtherUniverse(currentUniverse)
    /\ UNCHANGED <<pScene, pAltScene, pRay, pResult, pAltResult>>
    /\ UNCHANGED <<geoVars, camVars, queryVars, movieVars, pixelVars, loopVars>>

PortalNext == PortalRender \/ KeyCallbackU

\* The portal traceRay alone.
InitPortal ==
    PortalInit /\ GeoIdle /\ CamIdle /\ QueryIdle /\ MovieIdle /\ PixelIdle /\ LoopIdle

SpecPortal == InitPortal /\ [][PortalNext]_vars

-----------------------------------------------------------------------------
(* The scene queries of both programs, called on their own                  *)

\* A geodesic scene with spheres of both universes on the same line of sight.
GeoMixedScene ==
    << GeoSphere(<<0, 0, 40>>, 5, <<200, 200, 1000>>, FALSE, 2),
       GeoSphere(<<0, 0, 20>>, 5, <<1000, 200, 200>>, FALSE, 1),
       GeoSphere(<<0, 0, -40>>, 5, <<200, 1000, 200>>, FALSE, 2),
       GeoSphere(<<0, 0, 50>>, 5, <<1000, 900, 700>>, TRUE, 1) >>

QueryGeoScenes == GeoScenes \cup {GeoMixedScene}

QueryGeoRays ==
    { << <<0, 0, 80>>,    <<0, 0, -10>> >>,
      << <<0, 0, 80>>,    <<6, 0, -8>> >>,
      << <<-80, 40, 20>>, <<0, 0, -10>> >>,
      << <<80, 40, 80>>,  <<0, 0, -10>> >>,
      << <<0, 0, 50>>,    <<0, 0, -10>> >>,
      << <<0, -60, 80>>,  <<0, 0, -10>> >>,
      << <<0, 0, 30>>,    <<0, 0, 10>> >>,
      << <<0, 0, -80>>,   <<0, 0, 10>> >> }

QueryInit ==
    /\ qProgram = "none"
    /\ qScene = <<>>
    /\ qRay = <<>>
    /\ qResult = <<>>

\* wormhole_sim.cpp: traceScene(origin, direction, universe)
QueryTraceScene ==
    /\ \E scene \in PortalScenes, in \in PortalRays, u \in {1, 2} :
          /\ qScene' = scene
          /\ qRay' = [origin |-> VMulDiv(in[1], Scale, 1), direction |-> in[2],
                      universe |-> u]
          /\ qResult' = traceScene(scene, VMulDiv(in[1], Scale, 1), in[2], u)
    /\ qProgram' = "portal"
    /\ UNCHANGED <<geoVars, portalVars, camVars, movieVars, pixelVars, loopVars>>

\* wormhole_geodesic.cpp: intersectScene(origin, direction, universe)
QueryIntersectScene ==
    /\ \E scene \in QueryGeoScenes, in \in QueryGeoRays, u \in {1, 2} :
          /\ qScene' = scene
          /\ qRay' = [origin |-> VMulDiv(in[1], Scale, 1), direction |-> in[2],
                      universe |-> u]
          /\ qResult' = intersectScene(scene, VMulDiv(in[1], Scale, 1), in[2], u)
    /\ qProgram' = "geodesic"
    /\ UNCHANGED <<geoVars, portalVars, camVars, movieVars, pixelVars, loopVars>>

QueryNext == QueryTraceScene \/ QueryIntersectScene

\* The scene queries alone.
InitQuery ==
    QueryInit /\ GeoIdle /\ PortalIdle /\ CamIdle /\ MovieIdle /\ PixelIdle /\ LoopIdle

SpecQuery == InitQuery /\ [][QueryNext]_vars

-----------------------------------------------------------------------------
(* src/wormhole_sim.cpp: Camera and processInput                            *)

\* Angles are held in milliradians, sines and cosines times TrigScale.
TrigScale == 1000
M_PI == 3142
HALF_PI == 1571
TWO_PI == 6283

\* sin, by its Taylor series after reduction to [-pi/2, pi/2]
Sin(x) ==
    LET w == ((x + M_PI) % TWO_PI) - M_PI
        y == IF w > HALF_PI THEN M_PI - w
             ELSE IF w < -HALF_PI THEN -M_PI - w ELSE w
        y2 == Div(y * y, TrigScale)
        p3 == Div(Div(y * y2, TrigScale), 6)
        p5 == Div(Div(p3 * y2, TrigScale), 20)
        p7 == Div(Div(p5 * y2, TrigScale), 42)
    IN y - p3 + p5 - p7
Cos(x) == Sin(x + HALF_PI)

\* glm::clamp
clamp(x, lo, hi) == Min2(Max2(x, lo), hi)

\* glm::cross of two vectors of length Scale, as a vector of length Scale
cross(a, b) ==
    <<Div(a[2] * b[3] - a[3] * b[2], Scale),
      Div(a[3] * b[1] - a[1] * b[3], Scale),
      Div(a[1] * b[2] - a[2] * b[1], Scale)>>

\* No mouse button is down.
MouseUp == [held |-> FALSE, shift |-> FALSE]

\* Camera(): position(0, 0, 80), target(0, 0, 0), up(0, 1, 0), azimuth(0),
\* elevation(M_PI/2), radius(80); dragging = false, panning = false,
\* lastX = 0, lastY = 0
CameraCtor ==
    [position |-> <<0, 0, 80 * Scale>>, target |-> <<0, 0, 0>>, up |-> <<0, Scale, 0>>,
     azimuth |-> 0, elevation |-> HALF_PI, radius |-> 80 * Scale,
     dragging |-> FALSE, panning |-> FALSE, lastX |-> 0, lastY |-> 0]

\* target + radius * (sin(elevation) cos(azimuth), cos(elevation), sin(elevation) sin(azimuth))
SphericalOffset(cam) ==
    LET rs == Div(cam.radius * Sin(cam.elevation), TrigScale)
    IN <<Div(rs * Cos(cam.azimuth), TrigScale),
         Div(cam.radius * Cos(cam.elevation), TrigScale),
         Div(rs * Sin(cam.azimuth), TrigScale)>>

\* Camera::updatePosition
updatePosition(cam) == [cam EXCEPT !.position = VAdd(cam.target, SphericalOffset(cam))]

ELEVATION_MIN == 100
ELEVATION_MAX == 3042

\* Camera::orbit without the clamp of elevation.
orbitNoClamp(cam, dx, dy) ==
    updatePosition([cam EXCEPT !.azimuth = cam.azimuth - dx * 10,
                               !.elevation = cam.elevation + dy * 10])

\* Camera::orbit(dx, dy)
orbit(cam, dx, dy) ==
    updatePosition([cam EXCEPT !.azimuth = cam.azimuth - dx * 10,
                               !.elevation = clamp(cam.elevation + dy * 10,
                                                   ELEVATION_MIN, ELEVATION_MAX)])

\* Camera::pan(dx, dy)
pan(cam, dx, dy) ==
    LET forward == normalize(VSub(cam.target, cam.position))
        right == normalize(cross(forward, cam.up))
        localUp == normalize(cross(right, forward))
        moved == VAdd(VSub(cam.target, VMulDiv(right, dx * cam.radius, 1000 * Scale)),
                      VMulDiv(localUp, dy * cam.radius, 1000 * Scale))
    IN updatePosition([cam EXCEPT !.target = moved])

RADIUS_MIN == 20
RADIUS_MAX == 500

\* Camera::zoom without the clamp of radius.
zoomNoClamp(cam, delta) ==
    updatePosition([cam EXCEPT !.radius = Div(cam.radius * (10 - delta), 10)])

\* Camera::zoom(delta)
zoom(cam, delta) ==
    updatePosition([cam EXCEPT !.radius = clamp(Div(cam.radius * (10 - delta), 10),
                                                RADIUS_MIN * Scale, RADIUS_MAX * Scale)])

\* processInput with the keys in keys held down: position and target move by
\* the same vector, cameraSpeed = 2.5 along each pressed direction.
processInput(cam, keys) ==
    LET forward == normalize(VSub(cam.target, cam.position))
        right == normalize(cross(forward, cam.up))
        localUp == cross(right, forward)
        step(v) == VMulDiv(v, 25, 10)
        zero == <<0, 0, 0>>
        dW == IF "W" \in keys THEN step(forward) ELSE zero
        dS == IF "S" \in keys THEN VNeg(step(forward)) ELSE zero
        dA == IF "A" \in keys THEN VNeg(step(right)) ELSE zero
        dD == IF "D" \in keys THEN step(right) ELSE zero
        dSpace == IF "SPACE" \in keys
                  THEN (IF "SHIFT" \in keys THEN VNeg(step(localUp)) ELSE step(localUp))
                  ELSE zero
        d == VAdd(VAdd(VAdd(dW, dS), VAdd(dA, dD)), dSpace)
    IN [cam EXCEPT !.position = VAdd(cam.position, d), !.target = VAdd(cam.target, d)]

\* How many camera mutations a run makes.
MaxCamOps == 3

\* Cursor movements (pixels), scroll offsets and held keys.
OrbitDeltas == {<<0, 0>>, <<50, 0>>, <<0, -40>>, <<-30, 200>>}
PanDeltas == {<<10, 0>>, <<0, 10>>, <<-20, 5>>}
ZoomDeltas == {1, -1, 10}
KeySets == {{"W"}, {"S"}, {"A"}, {"D"}, {"SPACE"}, {"SPACE", "SHIFT"}, {"W", "D"}}

CamInit ==
    /\ camera = CameraCtor
    /\ camOps = 0
    /\ camLastOp = <<"Camera">>
    /\ mouseHist = MouseUp

\* cursorPosCallback while dragging without shift
CamOrbit ==
    /\ camOps < MaxCamOps
    /\ \E d \in OrbitDeltas :
          /\ camera' = orbit(camera, d[1], d[2])
          /\ camLastOp' = <<"orbit", d[1], d[2]>>
    /\ camOps' = camOps + 1
    /\ UNCHANGED mouseHist
    /\ UNCHANGED <<geoVars, portalVars, queryVars, movieVars, pixelVars, loopVars>>

\* cursorPosCallback while dragging with shift
CamPan ==
    /\ camOps < MaxCamOps
    /\ \E d \in PanDeltas :
          /\ camera' = pan(camera, d[1], d[2])
          /\ camLastOp' = <<"pan", d[1], d[2]>>
    /\ camOps' = camOps + 1
    /\ UNCHANGED mouseHist
    /\ UNCHANGED <<geoVars, portalVars, queryVars, movieVars, pixelVars, loopVars>>

\* scrollCallback
CamZoom ==
    /\ camOps < MaxCamOps
    /\ \E d \in ZoomDeltas :
          /\ camera' = zoom(camera, d)
          /\ camLastOp' = <<"zoom", d>>
    /\ camOps' = camOps + 1
    /\ UNCHANGED mouseHist
    /\ UNCHANGED <<geoVars, portalVars, queryVars, movieVars, pixelVars, loopVars>>

\* processInput, once per frame of the interactive loop
CamKeys ==
    /\ camOps < MaxCamOps
    /\ \E keys \in KeySets :
          /\ camera' = processInput(camera, keys)
          /\ camLastOp' = <<"processInput", keys>>
    /\ camOps' = camOps + 1
    /\ UNCHANGED mouseHist
    /\ UNCHANGED <<geoVars, portalVars, queryVars, movieVars, pixelVars, loopVars>>

CamNext == CamOrbit \/ CamPan \/ CamZoom \/ CamKeys

\* The camera alone.
InitCam ==
    CamInit /\ GeoIdle /\ PortalIdle /\ QueryIdle /\ MovieIdle /\ PixelIdle /\ LoopIdle

SpecCam == InitCam /\ [][CamNext]_vars

-----------------------------------------------------------------------------
(* src/wormhole_sim.cpp: movie mode                                         *)

MOVIE_FPS == 24

\* Keyframe::timeSec is held in ticks of 1 / TimeDen second.
TimeDen == 48

Keyframe(t, az, el, r, tg) ==
    [timeSec |-> t, posAzimuthDeg |-> az, posElevationDeg |-> el, posRadius |-> r,
     target |-> tg]

\* The built-in path of main().
DefaultKeys ==
    << Keyframe(0, 0, 80, 250, <<0, 0, 0>>),
       Keyframe(2 * TimeDen, 90, 70, 200, <<10, 10, 0>>),
       Keyframe(4 * TimeDen, 180, 60, 150, <<0, 0, 0>>),
       Keyframe(6 * TimeDen, 270, 50, 100, <<-10, -10, 0>>),
       Keyframe(8 * TimeDen, 360, 40, 70, <<0, 0, 0>>),
       Keyframe(10 * TimeDen, 540, 35, 45, <<5, 0, 5>>),
       Keyframe(12 * TimeDen, 720, 30, 25, <<0, 0, 0>>) >>

\* A line of the keyframe file is its sequence of whitespace-separated tokens:
\* a number, a word that is no number, or a word that starts with '#'.
Num(v) == [kind |-> "num", val |-> v]
Word == [kind |-> "word", val |-> 0]
Hash == [kind |-> "hash", val |-> 0]

NumberLine(t, az, el, r, x, y, z) ==
    <<Num(t), Num(az), Num(el), Num(r), Num(x), Num(y), Num(z)>>

\* The lines a keyframe file is made of here: blank, comment, text, too few
\* fields, a bad fifth field, and lines of seven numbers (one with an eighth).
MovieLines ==
    { <<>>,
      <<Hash>> \o NumberLine(0, 0, 80, 250, 0, 0, 0),
      <<Word, Word>>,
      <<Num(4), Num(90), Num(70)>>,
      <<Num(4), Num(90), Num(70), Num(200), Word, Num(10), Num(0)>>,
      NumberLine(0, 0, 80, 250, 0, 0, 0),
      NumberLine(4, 90, 70, 200, 10, 10, 0),
      NumberLine(6, 180, 60, 150, 0, 0, 0),
      NumberLine(7, 270, 50, 100, -10, -10, 0) \o <<Num(99)>> }

\* The longest keyframe file, in lines.
MaxLines == 3

MovieFiles ==
    {[open |-> FALSE, lines |-> <<>>]} \cup
    {[open |-> TRUE, lines |-> l] : l \in UNION {[1..n -> MovieLines] : n \in 0..MaxLines}}

ClosedFile == [open |-> FALSE, lines |-> <<>>]

\* line.empty() || line[0] == '#'
IsSkippedLine(line) == line = <<>> \/ line[1].kind = "hash"

\* ss >> k.timeSec >> ... >> k.target.z succeeds: seven numeric fields.
ParsesSeven(line) == Len(line) >= 7 /\ \A j \in 1..7 : line[j].kind = "num"

\* The Keyframe the seven extractions fill.
ParseKeyframe(line) ==
    Keyframe(line[1].val, line[2].val, line[3].val, line[4].val,
             <<line[5].val, line[6].val, line[7].val>>)

\* The getline loop with its continue statements replaced by break.
RECURSIVE LoadLinesStopAtBad(_, _)
LoadLinesStopAtBad(lines, out) ==
    IF lines = <<>> THEN out
    ELSE IF IsSkippedLine(Head(lines)) \/ ~ParsesSeven(Head(lines)) THEN out
    ELSE LoadLinesStopAtBad(Tail(lines), Append(out, ParseKeyframe(Head(lines))))

\* The getline loop of loadCameraPath.
RECURSIVE LoadLines(_, _)
LoadLines(lines, out) ==
    IF lines = <<>> THEN out
    ELSE IF IsSkippedLine(Head(lines)) THEN LoadLines(Tail(lines), out)
    ELSE IF ~ParsesSeven(Head(lines)) THEN LoadLines(Tail(lines), out)
    ELSE LoadLines(Tail(lines), Append(out, ParseKeyframe(Head(lines))))

\* loadCameraPath(pathFile, out)
loadCameraPath(file, out) ==
    IF ~file.open THEN [ok |-> FALSE, out |-> out]
    ELSE LET o == LoadLines(file.lines, out) IN [ok |-> o # <<>>, out |-> o]

\* The fallback with the test of loadCameraPath's result dropped: the loaded
\* list is used as it is.
KeysAfterLoadNoFallback(ok, loaded) == loaded
\* if (!loadCameraPath(pathFile, keys)) keys = { the built-in path }
KeysAfterLoad(ok, loaded) == IF ~ok THEN DefaultKeys ELSE loaded

\* static_cast<int>(totalDuration * MOVIE_FPS)
TotalFramesOf(ks) == Div(ks[Len(ks)].timeSec * MOVIE_FPS, TimeDen)

\* keys[k].timeSec <= currentTime instead of <.
KeyBeforeOrAt(key, i) == key.timeSec * MOVIE_FPS <= i * TimeDen
\* keys[k].timeSec < currentTime, with currentTime = i / MOVIE_FPS
KeyBefore(key, i) == key.timeSec * MOVIE_FPS < i * TimeDen

\* The while loop that advances keyframe_idx (0-based; ks[idx + 2] is the
\* code's keys[keyframe_idx + 1]).
RECURSIVE AdvanceKeyframe(_, _, _)
AdvanceKeyframe(ks, idx, i) ==
    IF idx + 1 < Len(ks) /\ KeyBefore(ks[idx + 2], i)
    THEN AdvanceKeyframe(ks, idx + 1, i)
    ELSE idx

\* a, b and the fraction t of one frame; t = num / den.
SelectPair(ks, idx, i) ==
    LET ia == idx
        ib == IF idx + 1 < Len(ks) THEN idx + 1 ELSE idx
        ka == ks[ia + 1]
        kb == ks[ib + 1]
    IN IF kb.timeSec > ka.timeSec
       THEN [a |-> ia, b |-> ib, num |-> i * TimeDen - ka.timeSec * MOVIE_FPS,
             den |-> (kb.timeSec - ka.timeSec) * MOVIE_FPS]
       ELSE [a |-> ia, b |-> ib, num |-> 0, den |-> 1]

\* glm::mix(x, y, t) for floats, t = num / den
mixf(x, y, num, den) == x + Div((y - x) * num, den)

\* glm::radians, from thousandths of a degree to milliradians
radians(mdeg) == Div(mdeg * 349, 20000)

\* acos, by bisection on Cos over [0, pi]; c is a cosine times TrigScale
RECURSIVE AcosIter(_, _, _)
AcosIter(c, lo, hi) ==
    IF hi - lo <= 1
    THEN IF Abs(Cos(lo) - c) <= Abs(Cos(hi) - c) THEN lo ELSE hi
    ELSE LET mid == (lo + hi) \div 2
         IN IF Cos(mid) >= c THEN AcosIter(c, mid, hi) ELSE AcosIter(c, lo, mid)
ACos(c) == AcosIter(clamp(c, -TrigScale, TrigScale), 0, M_PI)

\* atan2(y, x)
ATan2(y, x) ==
    LET r == ISqrt(x * x + y * y)
        base == IF r = 0 THEN 0 ELSE ACos(Div(x * TrigScale, r))
    IN IF y < 0 THEN -base ELSE base

\* setCamera(pos, target)
setCamera(cam, pos, target) ==
    LET dir == VSub(target, pos)
        radius == ISqrt(Dot(dir, dir))
    IN [cam EXCEPT !.position = pos,
                   !.target = target,
                   !.radius = radius,
                   !.azimuth = ATan2(dir[3], dir[1]),
                   !.elevation = IF radius = 0 THEN NAN
                                 ELSE ACos(Div(dir[2] * TrigScale, radius))]

\* The interpolated pose of a frame and the camera position computed from it.
FramePose(ks, s) ==
    LET ka == ks[s.a + 1]
        kb == ks[s.b + 1]
        az == mixf(ka.posAzimuthDeg * 1000, kb.posAzimuthDeg * 1000, s.num, s.den)
        el == mixf(ka.posElevationDeg * 1000, kb.posElevationDeg * 1000, s.num, s.den)
        rr == mixf(ka.posRadius * Scale, kb.posRadius * Scale, s.num, s.den)
        tg == <<mixf(ka.target[1] * Scale, kb.target[1] * Scale, s.num, s.den),
                mixf(ka.target[2] * Scale, kb.target[2] * Scale, s.num, s.den),
                mixf(ka.target[3] * Scale, kb.target[3] * Scale, s.num, s.den)>>
        off == SphericalOffset([radius |-> rr, elevation |-> radians(el),
                                azimuth |-> radians(az)])
    IN [target |-> tg, pos |-> VAdd(tg, off)]

\* The decimal digits of n, most significant first.
RECURSIVE Digits(_)
Digits(n) == IF n < 10 THEN <<n>> ELSE Digits(n \div 10) \o <<n % 10>>

\* std::setw(5) << std::setfill('0'): zeros in front up to five characters.
RECURSIVE PadZero(_)
PadZero(d) == IF Len(d) >= 5 THEN d ELSE PadZero(<<0>> \o d)

\* The number part of "frame_%05d.ppm" for frame i.
FrameName(i) == PadZero(Digits(i))

\* The frame whose compute pass follows frame i's: the loop's ++i, skipping one.
NextFrameSkip(i) == i + 2
\* ++i of the frame loop
NextFrame(i) == i + 1

MovieInit ==
    /\ mFile \in MovieFiles
    /\ movieKeys = <<>>
    /\ mpc = "load"
    /\ loadOk = FALSE
    /\ totalFrames = 0
    /\ frameI = 0
    /\ keyframe_idx = 0
    /\ sel = <<>>
    /\ nComputed = 0
    /\ nRead = 0
    /\ frameFiles = <<>>
    /\ playK = 0
    /\ lastShown = <<>>
    /\ camera = CameraCtor
    /\ camOps = 0
    /\ camLastOp = <<"Camera">>
    /\ mouseHist = MouseUp

\* loadCameraPath(pathFile, keys)
MovieLoad ==
    /\ mpc = "load"
    /\ LET r == loadCameraPath(mFile, movieKeys)
       IN movieKeys' = r.out /\ loadOk' = r.ok
    /\ mpc' = "loaded"
    /\ UNCHANGED <<mFile, totalFrames, frameI, keyframe_idx, sel, nComputed, nRead,
                   frameFiles, playK, lastShown>>
    /\ UNCHANGED <<geoVars, portalVars, camVars, queryVars, pixelVars, loopVars>>

\* The fallback to the built-in path, totalFrames, and the loop's setup.
MovieStart ==
    /\ mpc = "loaded"
    /\ movieKeys' = KeysAfterLoad(loadOk, movieKeys)
    /\ mFile' = ClosedFile
    /\ totalFrames' = IF movieKeys' = <<>> THEN 0 ELSE TotalFramesOf(movieKeys')
    /\ keyframe_idx' = 0
    /\ frameI' = 0
    /\ mpc' = IF movieKeys' = <<>> THEN "crash"
              ELSE IF 0 < totalFrames' THEN "select" ELSE "playback"
    /\ UNCHANGED <<loadOk, sel, nComputed, nRead, frameFiles, playK, lastShown>>
    /\ UNCHANGED <<geoVars, portalVars, camVars, queryVars, pixelVars, loopVars>>

\* Top of the frame loop body: the keyframes to interpolate between.
MovieSelect ==
    /\ mpc = "select"
    /\ LET idx == AdvanceKeyframe(movieKeys, keyframe_idx, frameI)
       IN /\ keyframe_idx' = idx
          /\ sel' = SelectPair(movieKeys, idx, frameI)
    /\ mpc' = "compute"
    /\ UNCHANGED <<mFile, movieKeys, loadOk, totalFrames, frameI, nComputed, nRead,
                   frameFiles, playK, lastShown>>
    /\ UNCHANGED <<geoVars, portalVars, camVars, queryVars, pixelVars, loopVars>>

\* Interpolation, setCamera and engine.computePixels().
MovieCompute ==
    /\ mpc = "compute"
    /\ LET pose == FramePose(movieKeys, sel)
       IN camera' = setCamera(camera, pose.pos, pose.target)
    /\ nComputed' = nComputed + 1
    /\ mpc' = "readback"
    /\ UNCHANGED <<camOps, camLastOp, mouseHist>>
    /\ UNCHANGED <<mFile, movieKeys, loadOk, totalFrames, frameI, keyframe_idx, sel, nRead,
                   frameFiles, playK, lastShown>>
    /\ UNCHANGED <<geoVars, portalVars, queryVars, pixelVars, loopVars>>

\* glGetTexImage and the conversion to bytes.
MovieReadback ==
    /\ mpc = "readback"
    /\ nRead' = nRead + 1
    /\ mpc' = "write"
    /\ UNCHANGED <<mFile, movieKeys, loadOk, totalFrames, frameI, keyframe_idx, sel,
                   nComputed, frameFiles, playK, lastShown>>
    /\ UNCHANGED <<geoVars, portalVars, camVars, queryVars, pixelVars, loopVars>>

\* writePPM, frameFiles.push_back, ++i and the loop test.
MovieWrite ==
    /\ mpc = "write"
    /\ frameFiles' = Append(frameFiles, FrameName(frameI))
    /\ frameI' = NextFrame(frameI)
    /\ mpc' = IF frameI' < totalFrames THEN "select" ELSE "playback"
    /\ UNCHANGED <<mFile, movieKeys, loadOk, totalFrames, keyframe_idx, sel, nComputed,
                   nRead, playK, lastShown>>
    /\ UNCHANGED <<geoVars, portalVars, camVars, queryVars, pixelVars, loopVars>>

\* One pass of the playback loop: the file is shown, or skipped when readPPM
\* fails; the loop goes on, or breaks when the window is to close.
MoviePlay ==
    /\ mpc = "playback"
    /\ playK < Len(frameFiles)
    /\ \E readable \in BOOLEAN, close \in BOOLEAN :
          /\ lastShown' = IF readable THEN frameFiles[playK + 1] ELSE lastShown
          /\ mpc' = IF readable /\ close THEN "done" ELSE "playback"
    /\ playK' = playK + 1
    /\ UNCHANGED <<mFile, movieKeys, loadOk, totalFrames, frameI, keyframe_idx, sel,
                   nComputed, nRead, frameFiles>>
    /\ UNCHANGED <<geoVars, portalVars, camVars, queryVars, pixelVars, loopVars>>

\* The playback loop has gone through frameFiles.
MovieEnd ==
    /\ mpc = "playback"
    /\ playK = Len(frameFiles)
    /\ mpc' = "done"
    /\ UNCHANGED <<mFile, movieKeys, loadOk, totalFrames, frameI, keyframe_idx, sel,
                   nComputed, nRead, frameFiles, playK, lastShown>>
    /\ UNCHANGED <<geoVars, portalVars, camVars, queryVars, pixelVars, loopVars>>

MovieNext ==
    \/ MovieLoad \/ MovieStart \/ MovieSelect \/ MovieCompute \/ MovieReadback
    \/ MovieWrite \/ MoviePlay \/ MovieEnd

\* Movie mode alone.
InitMovie == MovieInit /\ GeoIdle /\ PortalIdle /\ QueryIdle /\ PixelIdle /\ LoopIdle

SpecMovie == InitMovie /\ [][MovieNext]_vars

-----------------------------------------------------------------------------
(* src/wormhole_geodesic.cpp: main and its parallel pixel loop             *)

\* WIDTH, HEIGHT of the geodesic program (800 x 600 in the source) and the
\* number of OpenMP threads.
GEO_WIDTH == 2
GEO_HEIGHT == 3
NumThreads == 2

\* The averaged final_color of every pixel, as traceRay returns it for the
\* scene and camera of the frame: one of two images.
PixelImages ==
    { [p \in 1..(GEO_WIDTH * GEO_HEIGHT) |->
          <<(p * 300) % (ColorScale + 200), ColorScale, 0>>],
      [p \in 1..(GEO_WIDTH * GEO_HEIGHT) |->
          <<ColorScale \div 2, (p * 450) % ColorScale, ColorScale + 500>>] }

\* static_cast<unsigned char>(glm::clamp(c, 0.0f, 1.0f) * 255)
ToByte(c) == Div(clamp(c, 0, ColorScale) * 255, ColorScale)

\* The index with HEIGHT in the place of WIDTH.
PixelIndexByHeight(x, y) == (y * GEO_HEIGHT + x) * 3
\* int index = (y * WIDTH + x) * 3
PixelIndex(x, y) == (y * GEO_WIDTH + x) * 3

IdleWorker == [st |-> "idle", y |-> 0, x |-> 0, c |-> 0]

\* main() before the scene is built.
GmInit ==
    /\ gmPc = "setup"
    /\ pixColor \in PixelImages
    /\ pixels = <<>>
    /\ pixWrites = <<>>
    /\ nextRow = 0
    /\ workers = <<>>

\* One spheres.push_back of the scene setup.
GmPushSphere ==
    /\ gmPc = "setup"
    /\ Len(geoScene) < Len(GeoMainScene)
    /\ geoScene' = Append(geoScene, GeoMainScene[Len(geoScene) + 1])
    /\ UNCHANGED <<geoRay, tempL, gi, gpc, gColor, gEnd, nDerivs, nTeleports, travFlips,
                   fromOutside, lastTravFlips>>
    /\ UNCHANGED <<portalVars, camVars, queryVars, movieVars, pixelVars, loopVars>>

\* Camera setup, vector<unsigned char> pixels(WIDTH * HEIGHT * 3), and the
\* start of the parallel region.
GmAlloc ==
    /\ gmPc = "setup"
    /\ Len(geoScene) = Len(GeoMainScene)
    /\ pixels' = [k \in 1..(GEO_WIDTH * GEO_HEIGHT * 3) |-> 0]
    /\ pixWrites' = [k \in 1..(GEO_WIDTH * GEO_HEIGHT * 3) |-> {}]
    /\ workers' = [w \in 1..NumThreads |-> IdleWorker]
    /\ nextRow' = 0
    /\ gmPc' = "parallel"
    /\ UNCHANGED pixColor
    /\ UNCHANGED <<geoVars, portalVars, camVars, queryVars, movieVars, loopVars>>

\* schedule(dynamic): a thread takes the next row y.
GmTakeRow(w) ==
    /\ gmPc = "parallel"
    /\ workers[w].st = "idle"
    /\ nextRow < GEO_HEIGHT
    /\ workers' = [workers EXCEPT ![w] = [st |-> "busy", y |-> nextRow, x |-> 0, c |-> 0]]
    /\ nextRow' = nextRow + 1
    /\ UNCHANGED <<gmPc, pixels, pixWrites, pixColor>>
    /\ UNCHANGED <<geoVars, portalVars, camVars, queryVars, movieVars, loopVars>>

\* pixels[index + c] = ... for the thread's current pixel; after the third
\* channel the thread goes on to the next x, and after the last x it is free.
GmWrite(w) ==
    /\ gmPc = "parallel"
    /\ workers[w].st = "busy"
    /\ LET me == workers[w]
           entry == PixelIndex(me.x, me.y) + me.c
           value == ToByte(pixColor[me.y * GEO_WIDTH + me.x + 1][me.c + 1])
           next == IF me.c < 2 THEN [me EXCEPT !.c = me.c + 1]
                   ELSE IF me.x + 1 < GEO_WIDTH THEN [me EXCEPT !.x = me.x + 1, !.c = 0]
                   ELSE IdleWorker
       IN IF entry + 1 \in DOMAIN pixels
          THEN /\ pixels' = [pixels EXCEPT ![entry + 1] = value]
               /\ pixWrites' = [pixWrites EXCEPT ![entry + 1] = @ \cup {<<me.x, me.y, me.c>>}]
               /\ workers' = [workers EXCEPT ![w] = next]
               /\ UNCHANGED gmPc
          ELSE /\ gmPc' = "out of bounds"
               /\ UNCHANGED <<pixels, pixWrites, workers>>
    /\ UNCHANGED <<nextRow, pixColor>>
    /\ UNCHANGED <<geoVars, portalVars, camVars, queryVars, movieVars, loopVars>>

\* The end of the parallel region and stbi_write_png.
GmSave ==
    /\ gmPc = "parallel"
    /\ nextRow = GEO_HEIGHT
    /\ \A w \in 1..NumThreads : workers[w].st = "idle"
    /\ gmPc' = "saved"
    /\ UNCHANGED <<pixels, pixWrites, pixColor, nextRow, workers>>
    /\ UNCHANGED <<geoVars, portalVars, camVars, queryVars, movieVars, loopVars>>

GmNext ==
    \/ GmPushSphere
    \/ GmAlloc
    \/ \E w \in 1..NumThreads : GmTakeRow(w)
    \/ \E w \in 1..NumThreads : GmWrite(w)
    \/ GmSave

-----------------------------------------------------------------------------
(* src/wormhole_sim.cpp: the interactive loop                               *)

\* Frames and camera mutations the loop is followed for.
MaxFrames == 2
MaxLoopOps == 2

\* The phase in which GLFW runs the callbacks, inside
\* glfwPollEvents.  A GLFW that ran the callbacks as the events arrive would
\* add the phase of the trace.
CallbackPhasesAnyTime == {"tracing", "poll"}
CallbackPhases == {"poll"}

\* What computePixels hands to the compute shader.
FrameState == [camera |-> camera, currentUniverse |-> currentUniverse, scene |-> pScene]

LoopInit ==
    /\ iPc = "input"
    /\ iFrames = 0
    /\ iSnapshot = <<>>
    /\ camera = CameraCtor
    /\ camOps = 0
    /\ camLastOp = <<"Camera">>
    /\ mouseHist = MouseUp
    /\ currentUniverse = 1
    /\ pScene = [spheres |-> MainSpheres, cubes |-> MainCubes]
    /\ pAltScene = pScene
    /\ pRay = <<>>
    /\ pResult = <<>>
    /\ pAltResult = <<>>

\* processInput(engine.window): no key held, or a set of held keys.
LoopInput ==
    /\ iPc = "input"
    /\ iFrames < MaxFrames
    /\ \/ UNCHANGED camVars
       \/ /\ camOps < MaxLoopOps
          /\ \E held \in KeySets :
                /\ camera' = processInput(camera, held)
                /\ camLastOp' = <<"processInput", held>>
          /\ camOps' = camOps + 1
          /\ UNCHANGED mouseHist
    /\ iPc' = "compute"
    /\ UNCHANGED <<iFrames, iSnapshot>>
    /\ UNCHANGED <<geoVars, portalVars, queryVars, movieVars, pixelVars>>

\* computePixels up to glDispatchCompute: the camera, currentUniverse and the
\* list sizes go to the shader.
LoopComputeBegin ==
    /\ iPc = "compute"
    /\ iSnapshot' = FrameState
    /\ iPc' = "tracing"
    /\ UNCHANGED iFrames
    /\ UNCHANGED <<geoVars, portalVars, camVars, queryVars, movieVars, pixelVars>>

\* glDispatchCompute and glMemoryBarrier return; drawPixels draws and swaps,
\* and calls glfwPollEvents.
LoopComputeEnd ==
    /\ iPc = "tracing"
    /\ iPc' = "poll"
    /\ UNCHANGED <<iFrames, iSnapshot>>
    /\ UNCHANGED <<geoVars, portalVars, camVars, queryVars, movieVars, pixelVars>>

\* keyCallback, GLFW_KEY_U pressed.
LoopKeyU ==
    /\ iPc \in CallbackPhases
    /\ camOps < MaxLoopOps
    /\ currentUniverse' = OtherUniverse(currentUniverse)
    /\ camOps' = camOps + 1
    /\ UNCHANGED mouseHist
    /\ camLastOp' = <<"keyU">>
    /\ UNCHANGED <<camera, pScene, pAltScene, pRay, pResult, pAltResult>>
    /\ UNCHANGED loopVars
    /\ UNCHANGED <<geoVars, queryVars, movieVars, pixelVars>>

\* cursorPosCallback while dragging: pan with shift, orbit without.
LoopCursor ==
    /\ iPc \in CallbackPhases
    /\ camOps < MaxLoopOps
    /\ \/ \E d \in OrbitDeltas :
             /\ camera' = orbit(camera, d[1], d[2])
             /\ camLastOp' = <<"orbit", d[1], d[2]>>
       \/ \E d \in PanDeltas :
             /\ camera' = pan(camera, d[1], d[2])
             /\ camLastOp' = <<"pan", d[1], d[2]>>
    /\ camOps' = camOps + 1
    /\ UNCHANGED mouseHist
    /\ UNCHANGED loopVars
    /\ UNCHANGED <<geoVars, portalVars, queryVars, movieVars, pixelVars>>

\* scrollCallback
LoopScroll ==
    /\ iPc \in CallbackPhases
    /\ camOps < MaxLoopOps
    /\ \E d \in ZoomDeltas :
          /\ camera' = zoom(camera, d)
          /\ camLastOp' = <<"zoom", d>>
    /\ camOps' = camOps + 1
    /\ UNCHANGED mouseHist
    /\ UNCHANGED loopVars
    /\ UNCHANGED <<geoVars, portalVars, queryVars, movieVars, pixelVars>>

\* glfwPollEvents returns, render returns, and the loop tests
\* glfwWindowShouldClose.
LoopPollReturn ==
    /\ iPc = "poll"
    /\ iFrames' = iFrames + 1
    /\ \E close \in BOOLEAN : iPc' = IF close THEN "closed" ELSE "input"
    /\ UNCHANGED iSnapshot
    /\ UNCHANGED <<geoVars, portalVars, camVars, queryVars, movieVars, pixelVars>>

LoopNext ==
    \/ LoopInput \/ LoopComputeBegin \/ LoopComputeEnd
    \/ LoopKeyU \/ LoopCursor \/ LoopScroll \/ LoopPollReturn

\* One frame of either program: the geodesic main, or the interactive loop of
\* the portal program.
InitFrame ==
    \/ /\ GmInit
       /\ GeoIdle /\ PortalIdle /\ CamIdle /\ QueryIdle /\ MovieIdle /\ LoopIdle
    \/ /\ LoopInit
       /\ GeoIdle /\ QueryIdle /\ MovieIdle /\ PixelIdle

FrameNext == GmNext \/ LoopNext

SpecFrame == InitFrame /\ [][FrameNext]_vars

-----------------------------------------------------------------------------
(* src/wormhole_sim.cpp: the mouse callbacks                                *)

\* mouseButtonCallback with a release of the left button that clears dragging only.
mouseButtonCallbackKeepPanning(cam, button, action, mods, cursor) ==
    IF button = "LEFT"
    THEN IF action = "PRESS"
         THEN [cam EXCEPT !.dragging = TRUE, !.panning = ("SHIFT" \in mods),
                          !.lastX = cursor[1], !.lastY = cursor[2]]
         ELSE [cam EXCEPT !.dragging = FALSE]
    ELSE cam

\* mouseButtonCallback(window, button, action, mods); cursor is what
\* glfwGetCursorPos returns.
mouseButtonCallback(cam, button, action, mods, cursor) ==
    IF button = "LEFT"
    THEN IF action = "PRESS"
         THEN [cam EXCEPT !.dragging = TRUE, !.panning = ("SHIFT" \in mods),
                          !.lastX = cursor[1], !.lastY = cursor[2]]
         ELSE [cam EXCEPT !.dragging = FALSE, !.panning = FALSE]
    ELSE cam

\* The Camera function cursorPosCallback(window, x, y) calls, if any.
CursorCall(cam, x, y) ==
    IF cam.dragging
    THEN <<IF cam.panning THEN "pan" ELSE "orbit", x - cam.lastX, y - cam.lastY>>
    ELSE <<"none">>

\* cursorPosCallback(window, x, y)
cursorPosCallback(cam, x, y) ==
    IF cam.dragging
    THEN LET dx == x - cam.lastX
             dy == y - cam.lastY
             moved == IF cam.panning THEN pan(cam, dx, dy) ELSE orbit(cam, dx, dy)
         IN [moved EXCEPT !.lastX = x, !.lastY = y]
    ELSE cam

\* scrollCallback(window, xoffset, yoffset)
scrollCallback(cam, yoffset) == zoom(cam, yoffset)

\* What the events themselves say about the left button, whatever the camera
\* fields hold.
MouseAfter(hist, button, action, mods) ==
    IF button = "LEFT"
    THEN IF action = "PRESS" THEN [held |-> TRUE, shift |-> ("SHIFT" \in mods)]
         ELSE MouseUp
    ELSE hist

\* How many events a run delivers.
MaxMouseEvents == 4

\* Cursor positions (pixels) and scroll offsets.
CursorPositions == {<<0, 0>>, <<50, 0>>, <<-30, 200>>, <<0, -300>>}
PressPositions == {<<50, 0>>, <<0, -300>>}
ScrollOffsets == {1, -100, 10, 25}

\* The poses the last setCamera of movie mode may leave for playback: closer
\* than the smallest zoom radius, farther than the largest, level, straight
\* above the target.
LastPoses ==
    {<<<<0, 0, 5 * Scale>>, <<0, 0, 0>>>>,
     <<<<600 * Scale, 0, 0>>, <<0, 0, 0>>>>,
     <<<<30 * Scale, 40 * Scale, 0>>, <<0, 10 * Scale, 0>>>>,
     <<<<0, 50 * Scale, 0>>, <<0, 0, 0>>>>}

\* The interactive loop starts from Camera(); playback starts from the camera
\* of the last rendered frame.
MouseInit ==
    /\ camera \in {CameraCtor} \cup {setCamera(CameraCtor, p[1], p[2]) : p \in LastPoses}
    /\ camOps = 0
    /\ camLastOp = <<"Camera">>
    /\ mouseHist = MouseUp

\* glfwPollEvents delivers a mouse button event.
MouseButton ==
    /\ camOps < MaxMouseEvents
    /\ \E button \in {"LEFT", "RIGHT"}, action \in {"PRESS", "RELEASE"},
          mods \in {{}, {"SHIFT"}}, cursor \in PressPositions :
          /\ camera' = mouseButtonCallback(camera, button, action, mods, cursor)
          /\ mouseHist' = MouseAfter(mouseHist, button, action, mods)
          /\ camLastOp' = <<"button", button, action>>
    /\ camOps' = camOps + 1
    /\ UNCHANGED <<geoVars, portalVars, queryVars, movieVars, pixelVars, loopVars>>

\* glfwPollEvents delivers a cursor position event.
MouseCursor ==
    /\ camOps < MaxMouseEvents
    /\ \E c \in CursorPositions :
          /\ camera' = cursorPosCallback(camera, c[1], c[2])
          /\ camLastOp' = <<"cursor">> \o CursorCall(camera, c[1], c[2])
    /\ camOps' = camOps + 1
    /\ UNCHANGED mouseHist
    /\ UNCHANGED <<geoVars, portalVars, queryVars, movieVars, pixelVars, loopVars>>

\* glfwPollEvents delivers a scroll event.
MouseScroll ==
    /\ camOps < MaxMouseEvents
    /\ \E d \in ScrollOffsets :
          /\ camera' = scrollCallback(camera, d)
          /\ camLastOp' = <<"scroll", d>>
    /\ camOps' = camOps + 1
    /\ UNCHANGED mouseHist
    /\ UNCHANGED <<geoVars, portalVars, queryVars, movieVars, pixelVars, loopVars>>

MouseNext == MouseButton \/ MouseCursor \/ MouseScroll

\* The mouse callbacks alone.
InitMouse ==
    MouseInit /\ GeoIdle /\ PortalIdle /\ QueryIdle /\ MovieIdle /\ PixelIdle /\ LoopIdle

SpecMouse == InitMouse /\ [][MouseNext]_vars

-----------------------------------------------------------------------------
(* The intersection tests of single primitives, called on their own        *)

\* (centre, radius) of the spheres tested, in whole units.
PrimSpheres ==
    { << <<0, 0, 0>>, 15 >>, << <<0, 0, 50>>, 5 >>, << <<-80, 40, 0>>, 10 >> }

\* (centre, size) of the cubes tested, in whole units.
PrimCubes ==
    { << <<0, 0, 0>>, 20 >>, << <<0, 0, 5>>, 20 >>, << <<80, 40, 0>>, 18 >> }

\* (origin, direction) pairs: origins in whole units; directions along an axis
\* have length 1, the others are in tenths.
PrimRays ==
    { << <<0, 0, 80>>,     <<0, 0, -Scale>> >>,
      << <<0, 0, 80>>,     <<0, 0, Scale>> >>,
      << <<0, 0, 50>>,     <<0, 0, -Scale>> >>,
      << <<0, 0, 15>>,     <<0, 0, -Scale>> >>,
      << <<0, 0, 15>>,     <<0, 0, Scale>> >>,
      << <<0, 0, 10>>,     <<0, 0, -Scale>> >>,
      << <<0, 30, 0>>,     <<0, -Scale, 0>> >>,
      << <<-80, 40, 80>>,  <<0, 0, -Scale>> >>,
      << <<-150, 40, 0>>,  <<Scale, 0, 0>> >>,
      << <<10, 0, 80>>,    <<0, 0, -Scale>> >>,
      << <<-10, 0, 80>>,   <<0, 0, -Scale>> >>,
      << <<80, 49, 80>>,   <<0, 0, -Scale>> >>,
      << <<0, 0, 80>>,     <<6, 0, -8>> >>,
      << <<-60, 0, 80>>,   <<6, 0, -8>> >>,
      << <<-20, 0, 50>>,   <<6, 0, -8>> >>,
      << <<30, 30, 30>>,   <<-10, -10, -10>> >>,
      << <<30, 30, 35>>,   <<-10, -10, -10>> >> }

PrimRay(in) == [origin |-> VMulDiv(in[1], Scale, 1), direction |-> in[2], universe |-> 1]

\* Sphere::intersect(rayOrigin, rayDir, t, normal)
PrimSphereIntersect ==
    /\ \E s \in PrimSpheres, in \in PrimRays :
          /\ qScene' = PSphere(s[1], s[2], <<1000, 200, 200>>)
          /\ qRay' = PrimRay(in)
          /\ qResult' = SphereIntersect(qScene', qRay'.origin, qRay'.direction)
    /\ qProgram' = "Sphere::intersect"
    /\ UNCHANGED <<geoVars, portalVars, camVars, movieVars, pixelVars, loopVars>>

\* WormholeThroat::intersect(rayOrigin, rayDir, t)
PrimThroatIntersect ==
    /\ \E in \in PrimRays :
          /\ qRay' = PrimRay(in)
          /\ qResult' = ThroatIntersect(qRay'.origin, qRay'.direction)
    /\ qScene' = [center |-> THROAT_CENTER, radius |-> THROAT_RADIUS * Scale]
    /\ qProgram' = "WormholeThroat::intersect"
    /\ UNCHANGED <<geoVars, portalVars, camVars, movieVars, pixelVars, loopVars>>

\* The sphere test of the geodesic intersectScene, for one sphere of the
\* queried universe and closestHit as initialised.
PrimGeoSphereTest ==
    /\ \E s \in PrimSpheres, in \in PrimRays :
          /\ qScene' = GeoSphere(s[1], s[2], <<1000, 200, 200>>, FALSE, 1)
          /\ qRay' = PrimRay(in)
          /\ LET h == GeoSphereTest(NoHit, qScene', 1, qRay'.origin, qRay'.direction, 1)
             IN qResult' = [hit |-> h.hit, t |-> IF h.hit THEN h.distance ELSE NAN,
                            normal |-> h.normal]
    /\ qProgram' = "intersectScene"
    /\ UNCHANGED <<geoVars, portalVars, camVars, movieVars, pixelVars, loopVars>>

\* Cube::intersect(rayOrigin, rayDir, t, normal)
PrimCubeIntersect ==
    /\ \E c \in PrimCubes, in \in PrimRays :
          /\ qScene' = PCube(c[1], c[2], <<1000, 1000, 200>>)
          /\ qRay' = PrimRay(in)
          /\ qResult' = CubeIntersect(qScene', qRay'.origin, qRay'.direction)
    /\ qProgram' = "Cube::intersect"
    /\ UNCHANGED <<geoVars, portalVars, camVars, movieVars, pixelVars, loopVars>>

PrimNext ==
    \/ PrimSphereIntersect \/ PrimThroatIntersect \/ PrimGeoSphereTest
    \/ PrimCubeIntersect

\* The intersection tests alone.
InitPrim ==
    QueryInit /\ GeoIdle /\ PortalIdle /\ CamIdle /\ MovieIdle /\ PixelIdle /\ LoopIdle

SpecPrim == InitPrim /\ [][PrimNext]_vars

-----------------------------------------------------------------------------
(* Properties of the geodesic traceRay (checked under SpecGeo)             *)

\* C1: traceRay always terminates within max_steps loop iterations: the loop
\* counter never passes max_steps, the loop body runs only while the counter is
\* below max_steps, derivatives is called four times per RK4 step and at most
\* 4 * max_steps times, and a ray that neither hits nor escapes ends exactly
\* when the budget is used up.
C1_StepBudget ==
    /\ gi <= max_steps
    /\ nDerivs <= 4 * max_steps
    /\ nDerivs = 4 * (IF gpc = "post" \/ gEnd = "escape" THEN gi + 1 ELSE gi)
    /\ (gpc \in {"rk4", "post"} => gi < max_steps)
    /\ (gEnd = "budget" => gi = max_steps /\ gpc = "done")

\* A ray that used the whole budget: 1000 steps, 4000 derivative evaluations.
C1_Witness ==
    gpc = "done" /\ gEnd = "budget" /\ gi = max_steps /\ nDerivs = 4 * max_steps

-----------------------------------------------------------------------------
(* Properties of the portal traceRay (checked under SpecPortal)            *)

\* What the last traced ray meets: the throat, and the nearest primitive of
\* the universe it was traced in.
RayThroatHit == ThroatIntersect(pRay.origin, pRay.direction)
RaySceneHit == traceScene(pScene, pRay.origin, pRay.direction, pRay.universe)

\* C4: when the ray has a local hit and a throat intersection and the local
\* hit is strictly nearer than the throat, traceRay returns the shading of
\* the local hit and the other universe's primitives are not queried.
C4_LocalHitFirst ==
    (/\ pRay # <<>>
     /\ RaySceneHit.hit
     /\ RayThroatHit.hit
     /\ RaySceneHit.distance < RayThroatHit.t)
    => /\ pResult.case = "local"
       /\ pResult.color = PortalShade(RaySceneHit, pRay.origin, pRay.direction)
       /\ pResult.queried = {pRay.universe}

\* A ray with a local hit in front of the throat it would otherwise enter.
C4_Witness ==
    /\ pRay # <<>>
    /\ RaySceneHit.hit
    /\ RayThroatHit.hit
    /\ RaySceneHit.distance < RayThroatHit.t
    /\ pResult.case = "local"

\* C5: when the local hit distance equals the throat distance exactly, the
\* ray is shaded as a local hit and does not enter the throat.
C5_TieGoesLocal ==
    (/\ pRay # <<>>
     /\ RaySceneHit.hit
     /\ RayThroatHit.hit
     /\ RaySceneHit.distance = RayThroatHit.t)
    => /\ pResult.case = "local"
       /\ pResult.queried = {pRay.universe}

\* C6: a ray that does not intersect the throat gets the same colour on two
\* scenes that agree on the traced universe and differ in the other one, and
\* that colour is the local hit's shading, or the local background when the
\* local scene is not hit.
C6_NoCrossUniverse ==
    (pRay # <<>> /\ ~RayThroatHit.hit)
    => /\ pResult.color = pAltResult.color
       /\ pResult.color =
             IF RaySceneHit.hit
             THEN PortalShade(RaySceneHit, pRay.origin, pRay.direction)
             ELSE LocalBackground(Stars, pRay.direction, pRay.universe)

\* A ray that misses the throat and points at a primitive of the other
\* universe, which the second scene does not have there.
C6_Witness ==
    /\ pRay # <<>>
    /\ ~RayThroatHit.hit
    /\ traceScene(pScene, pRay.origin, pRay.direction, OtherUniverse(pRay.universe)).hit
    /\ ~traceScene(pAltScene, pRay.origin, pRay.direction, OtherUniverse(pRay.universe)).hit

-----------------------------------------------------------------------------
(* Properties of the scene queries (checked under SpecQuery)               *)

\* The universe a portal primitive belongs to: spheres to 1, cubes to 2.
KindUniverse(kind) == IF kind = "sphere" THEN 1 ELSE 2

\* A portal scene without the primitives of the universes other than u.
PortalOnly(scene, u) ==
    [spheres |-> IF u = 1 THEN scene.spheres ELSE <<>>,
     cubes |-> IF u = 1 THEN <<>> ELSE scene.cubes]

\* The spheres of universe u in a geodesic scene, in order.
RECURSIVE GeoOnly(_, _)
GeoOnly(scene, u) ==
    IF scene = <<>> THEN <<>>
    ELSE IF Head(scene).universeID = u
    THEN <<Head(scene)>> \o GeoOnly(Tail(scene), u)
    ELSE GeoOnly(Tail(scene), u)

\* The HitInfo fields of the code (without the model's index).
HitFields(h) == [hit |-> h.hit, distance |-> h.distance, normal |-> h.normal,
                 color |-> h.color]

\* The portal query reported a primitive of universe u, with its own values.
C7_Portal ==
    LET u == qRay.universe
        list == PrimitivesOf(qScene, u)
        k == qResult.index
        is == IF u = 1 THEN SphereIntersect(list[k], qRay.origin, qRay.direction)
              ELSE CubeIntersect(list[k], qRay.origin, qRay.direction)
    IN /\ qResult.hit
          => /\ KindUniverse(qResult.kind) = u
             /\ k \in 1..Len(list)
             /\ is.hit
             /\ qResult.distance = is.t
             /\ qResult.normal = is.normal
             /\ qResult.color = list[k].color
       /\ HitFields(qResult) =
             HitFields(traceScene(PortalOnly(qScene, u), qRay.origin, qRay.direction, u))

\* The geodesic query reported a sphere of universe u, with its own values.
C7_Geodesic ==
    LET u == qRay.universe
        k == qResult.index
    IN /\ qResult.hit
          => /\ k \in 1..Len(qScene)
             /\ qScene[k].universeID = u
             /\ qResult = GeoSphereTest(NoHit, qScene[k], k, qRay.origin, qRay.direction,
                                        qScene[k].universeID)
       /\ HitFields(qResult) =
             HitFields(intersectScene(GeoOnly(qScene, u), qRay.origin, qRay.direction, u))

\* C7: a scene query for universe u reports only a primitive of universe u:
\* the hit, distance, normal and colour are those of one primitive of u, and
\* the result is what the query gives with every other primitive removed.
C7_OnlyMatchingUniverse ==
    /\ qProgram = "portal" => C7_Portal
    /\ qProgram = "geodesic" => C7_Geodesic

\* A geodesic query that hit a sphere of its universe behind a nearer sphere
\* of the other universe.
C7_Witness ==
    /\ qProgram = "geodesic"
    /\ qResult.hit
    /\ \E k \in 1..Len(qScene) :
          /\ qScene[k].universeID # qRay.universe
          /\ LET h == GeoSphereTest(NoHit, qScene[k], k, qRay.origin, qRay.direction,
                                    qScene[k].universeID)
             IN h.hit /\ h.distance < qResult.distance

\* The distances t > 0.001 at which a ray meets a sphere.
PositiveRoots(origin, direction, center, radius) ==
    LET qd == SphereQuadratic(origin, direction, center, radius)
    IN IF qd.real THEN {t \in {qd.t1, qd.t2} : GtEps(t)} ELSE {}

SetMin(S) == CHOOSE x \in S : \A y \in S : x <= y

\* The first distance t > 0.001 at which the query's ray meets primitive k of
\* list, as a set: empty when it does not.
FirstPositive(list, k, kind) ==
    IF kind = "cube"
    THEN LET is == CubeIntersect(list[k], qRay.origin, qRay.direction)
         IN IF is.hit /\ is.t \notin {NAN, POS_INF, NEG_INF} THEN {is.t} ELSE {}
    ELSE LET r == PositiveRoots(qRay.origin, qRay.direction, list[k].center, list[k].radius)
         IN IF r = {} THEN {} ELSE {SetMin(r)}

\* The result is the nearest of the primitives in ks of list, or no hit with
\* the sentinel distance when the ray meets none of them.
ReportsNearest(list, ks, kind) ==
    LET met == {k \in ks : FirstPositive(list, k, kind) # {}}
        dist(k) == SetMin(FirstPositive(list, k, kind))
    IN IF met = {}
       THEN ~qResult.hit /\ qResult.distance = SENTINEL_DISTANCE
       ELSE /\ qResult.hit
            /\ \E k \in met :
                  /\ \A j \in met : dist(k) <= dist(j)
                  /\ qResult.distance = dist(k)
                  /\ qResult.color = list[k].color
                  /\ qResult.normal =
                        IF kind = "cube"
                        THEN CubeIntersect(list[k], qRay.origin, qRay.direction).normal
                        ELSE normalize(VSub(PointAt(qRay.origin, qRay.direction, dist(k)),
                                            list[k].center))

C8_Portal ==
    LET list == PrimitivesOf(qScene, qRay.universe)
    IN ReportsNearest(list, 1..Len(list), IF qRay.universe = 1 THEN "sphere" ELSE "cube")

C8_Geodesic ==
    ReportsNearest(qScene, {k \in 1..Len(qScene) : qScene[k].universeID = qRay.universe},
                   "sphere")

\* C8: the scene query returns the primitive of the queried universe with the
\* minimum positive intersection distance, with its normal and colour, and
\* hit = false with the distance at the sentinel when no primitive of that
\* universe is met at a positive distance.
C8_MinPositive ==
    /\ qProgram = "portal" => C8_Portal
    /\ qProgram = "geodesic" => C8_Geodesic

-----------------------------------------------------------------------------
(* Properties of the camera (checked under SpecCam)                        *)

\* C9: after any sequence of orbit, pan, zoom and processInput mutations of
\* the constructed camera, position is target + radius * (sin(elevation)
\* cos(azimuth), cos(elevation), sin(elevation) sin(azimuth)).
C9_CameraConsistent ==
    camOps >= 1 => camera.position = VAdd(camera.target, SphericalOffset(camera))

\* C10: orbit(0, 0) leaves position, azimuth, elevation, radius and target
\* unchanged in every reachable camera state.
C10_OrbitZeroNoOp ==
    [][(camLastOp' = <<"orbit", 0, 0>> /\ camOps' = camOps + 1) => camera' = camera]_vars

-----------------------------------------------------------------------------
(* Properties of movie mode (checked under SpecMovie)                      *)

IsSortedByTime(ks) == \A j \in 1..(Len(ks) - 1) : ks[j].timeSec <= ks[j + 1].timeSec

\* The frame time i / MOVIE_FPS against a keyframe's time, both in units of
\* 1 / (MOVIE_FPS * TimeDen) second.
FrameTicks(i) == i * TimeDen
KeyTicks(key) == key.timeSec * MOVIE_FPS

\* The selection of the current frame has been made.
Selected == mpc = "compute" /\ IsSortedByTime(movieKeys)

RECURSIVE DigitsValue(_)
DigitsValue(d) == IF d = <<>> THEN 0 ELSE 10 * DigitsValue(SubSeq(d, 1, Len(d) - 1)) + d[Len(d)]

\* Frame i's compute pass is entered with every earlier frame computed, read
\* back and written, and each frame is read back and written once.
C12_OnePassAtATime ==
    /\ Len(frameFiles) <= nRead /\ nRead <= nComputed /\ nComputed <= Len(frameFiles) + 1
    /\ mpc \in {"select", "compute"} =>
          nComputed = frameI /\ nRead = frameI /\ Len(frameFiles) = frameI
    /\ mpc = "readback" => nComputed = frameI + 1 /\ nRead = frameI
    /\ mpc = "write" => nRead = frameI + 1 /\ Len(frameFiles) = frameI

\* The written files are numbered 0, 1, ... in order, up to totalFrames - 1
\* once the frame loop is over.
C12_FilesNumbered ==
    /\ \A k \in 1..Len(frameFiles) :
          Len(frameFiles[k]) = 5 /\ DigitsValue(frameFiles[k]) = k - 1
    /\ Len(frameFiles) <= Max2(totalFrames, 0)
    /\ mpc \in {"playback", "done"} => Len(frameFiles) = Max2(totalFrames, 0)

\* Playback shows the file at its position of the list, after every file it
\* has shown before.
C12_PlaybackStep ==
    lastShown' # lastShown =>
        /\ lastShown' = frameFiles[playK + 1]
        /\ playK' = playK + 1
        /\ lastShown # <<>> => DigitsValue(lastShown) < DigitsValue(lastShown')

\* C12: in movie mode frame i + 1 is computed only after frame i has been read
\* back and written, the files are numbered 0 .. totalFrames - 1 with no gap
\* and no repeat, and playback shows them in that order.
C12_FramesInOrder ==
    /\ [](C12_OnePassAtATime /\ C12_FilesNumbered)
    /\ [][C12_PlaybackStep]_vars

\* Three or more frames have been written and played back to the last one.
C12_Witness ==
    /\ mpc = "done"
    /\ Len(frameFiles) >= 3
    /\ Len(frameFiles) = totalFrames
    /\ playK = Len(frameFiles)
    /\ lastShown = frameFiles[Len(frameFiles)]

\* A line that is non-empty, does not start with '#', and has seven numeric
\* fields in front.
IsValidLine(line) ==
    /\ line # <<>>
    /\ line[1].kind # "hash"
    /\ Len(line) >= 7
    /\ \A j \in 1..7 : line[j].kind = "num"

\* The keyframe a valid line stands for.
KeyframeOfLine(line) ==
    [timeSec |-> line[1].val, posAzimuthDeg |-> line[2].val,
     posElevationDeg |-> line[3].val, posRadius |-> line[4].val,
     target |-> <<line[5].val, line[6].val, line[7].val>>]

\* C18: loadCameraPath appends exactly one keyframe, in file order, for each
\* line that is non-empty, does not start with '#' and parses seven numeric
\* fields; every other line contributes nothing and does not stop the loading
\* of later lines.
C18_OneKeyframePerValidLine ==
    (mpc = "loaded" /\ mFile.open) =>
        LET valid == SelectSeq(mFile.lines, IsValidLine)
        IN /\ Len(movieKeys) = Len(valid)
           /\ \A k \in 1..Len(valid) : movieKeys[k] = KeyframeOfLine(valid[k])
           /\ loadOk = (valid # <<>>)

\* A loaded file in which a valid line follows a blank line, a comment or a
\* line that fails to parse.
C18_Witness ==
    /\ mpc = "loaded"
    /\ mFile.open
    /\ \E j, k \in 1..Len(mFile.lines) :
          /\ j < k
          /\ ~IsValidLine(mFile.lines[j])
          /\ IsValidLine(mFile.lines[k])
    /\ \E j \in 1..Len(mFile.lines) :
          mFile.lines[j] # <<>> /\ mFile.lines[j][1].kind # "hash" /\ ~IsValidLine(mFile.lines[j])
    /\ movieKeys # <<>>

\* C19: when the keyframe file cannot be opened or yields no valid keyframe,
\* the keyframe list is the built-in path of seven keyframes, and the list is
\* non-empty wherever it is indexed (keys.back(), keys[keyframe_idx]).
C19_FallbackToDefault ==
    /\ mpc # "crash"
    /\ mpc \in {"select", "compute", "readback", "write", "playback", "done"} =>
          /\ movieKeys # <<>>
          /\ ~loadOk => movieKeys = DefaultKeys /\ Len(movieKeys) = 7
          /\ loadOk => movieKeys # DefaultKeys
          /\ totalFrames = TotalFramesOf(movieKeys)
    /\ mpc \in {"compute", "readback", "write"} =>
          /\ keyframe_idx + 1 <= Len(movieKeys)
          /\ sel.a + 1 <= Len(movieKeys)
          /\ sel.b + 1 <= Len(movieKeys)

\* The file did not load, and a frame of the built-in path is being rendered.
C19_Witness ==
    /\ ~loadOk
    /\ mpc = "compute"
    /\ movieKeys = DefaultKeys
    /\ frameI >= 1

-----------------------------------------------------------------------------
(* Further properties of the geodesic traceRay (checked under SpecGeo)     *)

\* C15: a ray that ends without a scene hit, by leaving the escape distance
\* or by using up the 1000 steps, returns black (0,0,0); a ray ends in one of
\* a hit, an escape, or the budget used up.
C15_NoHitIsBlack ==
    /\ gpc = "done" <=> gEnd \in {"hit", "escape", "budget"}
    /\ gEnd = "escape" =>
          /\ gColor = <<0, 0, 0>>
          /\ Escaped(geoRay.pos)
    /\ gEnd = "budget" => gColor = <<0, 0, 0>> /\ gi = max_steps

\* A ray has used up its steps without a hit.
C15_Witness == gEnd = "budget" /\ gi = max_steps /\ gColor = <<0, 0, 0>>

\* The hit the last intersection test of a trace returned.
LastHit == intersectScene(geoScene, geoRay.pos, normalize(geoRay.momentum), geoRay.universe)

\* The centres of the emissive spheres of a universe.
EmissiveCenters(scene, universe) ==
    {scene[j].center : j \in {j \in 1..Len(scene) :
                                 scene[j].isEmissive /\ scene[j].universeID = universe}}

\* C16: shading a non-emissive hit reads only spheres that exist in the scene
\* list, and its light is an emissive sphere of the ray's universe; the code
\* defines no default light for a universe without one.
C16_SunAlwaysAvailable ==
    (gEnd = "hit" /\ ~LastHit.isEmissive) =>
        /\ (IF geoRay.universe = 1 THEN 1 ELSE 4) <= Len(geoScene)
        /\ SunPositions(geoScene, geoRay.universe)
              \subseteq EmissiveCenters(geoScene, geoRay.universe)

-----------------------------------------------------------------------------
(* Stale fields of intersection results (checked under SpecQuery)          *)

\* What the distance, normal and colour of a HitInfo with hit = false, and a
\* t_throat that intersect left unassigned, may hold.
StaleHits ==
    [distance : {0, 5 * Scale, SENTINEL_DISTANCE}, vec : {<<Scale, 0, 0>>, <<0, 0, 0>>}]
StaleTs == {NAN, 0, 5 * Scale, POS_INF}

WithStale(h, st) ==
    IF h.hit THEN h
    ELSE [h EXCEPT !.distance = st.distance, !.normal = st.vec, !.color = st.vec]

WithStaleT(th, t) == IF th.hit THEN th ELSE [th EXCEPT !.t = t]

C17_Portal ==
    LET th == ThroatIntersect(qRay.origin, qRay.direction)
        case == PortalCaseOf(th, qResult)
        entry == ThroatEntry(qRay.origin, qRay.direction, th.t)
        otherSceneHit == traceScene(qScene, entry.new_origin, entry.refracted_dir,
                                    OtherUniverse(qRay.universe))
    IN /\ case = "local" => qResult.hit
       /\ case = "throat" => th.hit
       /\ \A st \in StaleHits, t \in StaleTs :
             PortalCaseOf(WithStaleT(th, t), WithStale(qResult, st)) = case
       /\ case = "throat" =>
             \A st \in StaleHits :
                ThroatCaseFrom(WithStale(otherSceneHit, st), entry, Stars, qRay.universe)
                   = ThroatCaseFrom(otherSceneHit, entry, Stars, qRay.universe)

C17_Geodesic ==
    /\ HitIsNear(qResult) => qResult.hit
    /\ \A st \in StaleHits : HitIsNear(WithStale(qResult, st)) = HitIsNear(qResult)

\* C17: hit = false is authoritative: the case either traceRay takes, and the
\* colour it returns, do not depend on the distance, normal or colour of a
\* HitInfo whose hit flag is false, nor on t_throat when throat.intersect
\* returned false.
C17_HitFlagAuthoritative ==
    /\ qProgram = "portal" => C17_Portal
    /\ qProgram = "geodesic" => C17_Geodesic

\* A local hit on a ray that misses the throat: t_throat is unassigned where
\* the distances would be compared.
C17_Witness ==
    /\ qProgram = "portal"
    /\ qResult.hit
    /\ ~ThroatIntersect(qRay.origin, qRay.direction).hit
    /\ PortalCaseOf(ThroatIntersect(qRay.origin, qRay.direction), qResult) = "local"

-----------------------------------------------------------------------------
(* The background seen through the throat (checked under SpecPortal)       *)

\* C20: when the ray enters the throat and the refracted ray hits nothing in
\* the other universe, the colour blended with the edge glow is the other
\* universe's own background: what a direct miss in the refracted direction
\* returns when currentUniverse is that universe.
C20_OtherUniverseBackground ==
    (pRay # <<>> /\ pResult.case = "throat" /\ ~pResult.otherHit) =>
        pResult.behind = LocalBackground(Stars, pResult.refracted,
                                         OtherUniverse(pRay.universe))

-----------------------------------------------------------------------------
(* Properties of a frame (checked under SpecFrame)                         *)

\* The pixel and channel a buffer entry e (counted from 0) belongs to.
EntryOwner(e) ==
    <<(e \div 3) % GEO_WIDTH, (e \div 3) \div GEO_WIDTH, e % 3>>

\* The buffer with every pixel's three bytes in its place.
ExpectedPixels ==
    [k \in 1..(GEO_WIDTH * GEO_HEIGHT * 3) |->
        ToByte(pixColor[((k - 1) \div 3) + 1][((k - 1) % 3) + 1])]

\* C13: each pixel (x, y) writes exactly the three entries (y*WIDTH+x)*3 .. +2,
\* all inside the buffer; no entry is written by two pixels or twice; and
\* whatever the interleaving of the threads the finished buffer is the same:
\* every pixel's bytes in its own three entries.
C13_DisjointWrites ==
    /\ gmPc # "out of bounds"
    /\ gmPc \in {"parallel", "saved"} =>
          /\ DOMAIN pixels = 1..(GEO_WIDTH * GEO_HEIGHT * 3)
          /\ \A k \in DOMAIN pixWrites :
                /\ pixWrites[k] \subseteq {EntryOwner(k - 1)}
                /\ pixWrites[k] = {} => pixels[k] = 0
                /\ pixWrites[k] # {} => pixels[k] = ExpectedPixels[k]
    /\ gmPc = "saved" =>
          /\ pixels = ExpectedPixels
          /\ \A k \in DOMAIN pixWrites : pixWrites[k] = {EntryOwner(k - 1)}

\* Two threads are each part-way through a row of their own.
C13_Witness ==
    /\ gmPc = "parallel"
    /\ \E w1, w2 \in 1..NumThreads :
          /\ w1 # w2
          /\ workers[w1].st = "busy" /\ workers[w1].x + workers[w1].c > 0
          /\ workers[w2].st = "busy" /\ workers[w2].x + workers[w2].c > 0
          /\ workers[w1].y > workers[w2].y

\* C14: while a frame is traced the scene, the camera and currentUniverse are
\* not written: the geodesic program's sphere list is complete before the
\* parallel loop and stays as it is, and in the interactive loop the state
\* is, all through computePixels, the one the pass started with.
C14_FrameStateFrozen ==
    /\ gmPc = "parallel" => geoScene = GeoMainScene /\ Len(geoScene) = 6
    /\ iPc = "tracing" => FrameState = iSnapshot

\* A later frame is being traced after the camera and the universe have been
\* changed between frames.
C14_Witness ==
    /\ iPc = "tracing"
    /\ iFrames >= 1
    /\ camOps >= 2
    /\ currentUniverse = 2
    /\ camera # CameraCtor

-----------------------------------------------------------------------------
(* Properties of the intersection tests (checked under SpecPrim)           *)

SphereTests == {"Sphere::intersect", "WormholeThroat::intersect", "intersectScene"}

\* What the root rule reports for the sphere and ray of the state: the
\* smaller root when it exceeds 0.001, otherwise the larger root when that
\* does, otherwise no hit.
RootRule ==
    LET qd == SphereQuadratic(qRay.origin, qRay.direction, qScene.center, qScene.radius)
    IN IF ~qd.real THEN <<FALSE, NAN>>
       ELSE IF GtEps(qd.t1) THEN <<TRUE, qd.t1>>
       ELSE IF GtEps(qd.t2) THEN <<TRUE, qd.t2>>
       ELSE <<FALSE, NAN>>

\* C21: every ray-sphere test reports the smaller root when it exceeds 0.001,
\* otherwise the larger root when that exceeds 0.001, and no hit otherwise; a
\* ray that starts inside the sphere gets the far root.
C21_RootRule ==
    qProgram \in SphereTests => <<qResult.hit, qResult.t>> = RootRule

\* The ray is aimed at the sphere's centre from outside, with a direction of
\* length 1; d is the distance of the origin from the centre.
AimedAtCentre(d) ==
    LET to == VSub(qScene.center, qRay.origin)
    IN /\ Dot(qRay.direction, qRay.direction) = Scale * Scale
       /\ d > qScene.radius
       /\ Dot(to, to) = d * d
       /\ VMulDiv(qRay.direction, d, Scale) = to

\* C22: a unit-direction ray aimed at the centre of a sphere of radius r from
\* distance d > r is reported as a hit with t = d - r and the normal equal to
\* the negated direction.
C22_AimedAtCentre ==
    qProgram \in SphereTests =>
        \A d \in 1..(200 * Scale) :
            AimedAtCentre(d) =>
                /\ qResult.hit
                /\ qResult.t = d - qScene.radius
                /\ qProgram # "WormholeThroat::intersect" =>
                      qResult.normal = VNeg(qRay.direction)

\* Sphere::intersect has been called with a ray aimed at the centre from
\* outside.
C22_Witness ==
    /\ qProgram = "Sphere::intersect"
    /\ \E d \in 1..(200 * Scale) : AimedAtCentre(d)
    /\ qResult.hit

AxisUnitVectors ==
    {<<1, 0, 0>>, <<-1, 0, 0>>, <<0, 1, 0>>, <<0, -1, 0>>, <<0, 0, 1>>, <<0, 0, -1>>}

\* C23: whenever Cube::intersect reports a hit on a cube of positive size the
\* normal is one of the six axis unit vectors.
C23_AxisNormal ==
    (qProgram = "Cube::intersect" /\ qScene.size > 0 /\ qResult.hit) =>
        qResult.normal \in AxisUnitVectors


\* C24: in the geodesic traceRay every completed RK4 step is followed by the
\* scene-intersection test before the teleport and escape tests of that step,
\* and no intersection test follows a teleport without a step in between.
C24_HitTestAfterStep ==
    [][/\ (gpc = "rk4" => gpc' = "check")
       /\ ((gpc = "post" /\ nTeleports' > nTeleports) => gpc' # "check")]_vars

\* C25: whenever derivatives is evaluated, the l it reads is the wormhole-axis
\* coordinate (y) of the position it is evaluated at; stated for k1, which is
\* evaluated at geoRay itself.
C25_LIsAxisCoordinate ==
    gpc = "rk4" => geoRay.l = Div(geoRay.pos[2], Scale)


-----------------------------------------------------------------------------
(* Properties of the mouse callbacks (checked under SpecMouse)             *)

C27_ZoomRadiusClamped ==
    camLastOp[1] = "scroll"
        => (RADIUS_MIN * Scale <= camera.radius /\ camera.radius <= RADIUS_MAX * Scale)

\* C27: a zoom by delta = 25, whose scale factor is negative, has run and left
\* radius at 20.
C27_Witness ==
    camLastOp = <<"scroll", 25>> /\ camera.radius = RADIUS_MIN * Scale

\* C30: a cursor move changes the camera only while the left button is held
\* (pressed and not released since); while it is held the move is a pan if
\* Shift was down at that press and an orbit if not; and panning implies
\* dragging in every state.
C30_DragState ==
    /\ [](camera.panning => camera.dragging)
    /\ [][(camOps' = camOps + 1 /\ camLastOp'[1] = "cursor")
            => /\ (~mouseHist.held => (camLastOp'[2] = "none" /\ camera' = camera))
               /\ ((mouseHist.held /\ mouseHist.shift) => camLastOp'[2] = "pan")
               /\ ((mouseHist.held /\ ~mouseHist.shift) => camLastOp'[2] = "orbit")]_vars

\* C30: a cursor move arrived after a press at (0, -300) and its release, and
\* left the camera alone.
C30_Witness ==
    /\ camLastOp = <<"cursor", "none">>
    /\ ~mouseHist.held
    /\ camera.lastY = -300


-----------------------------------------------------------------------------
(* Interpolation and setCamera (checked under SpecMovie)                   *)

\* C28: with keyframes sorted by time, every frame's interpolation fraction
\* num / den lies within [0, 1] and is 0 when the two selected keyframes have
\* equal times, the selected indices lie within the list, and keyframe_idx
\* never decreases from one frame to the next.
C28_FractionInUnitInterval ==
    /\ [](Selected =>
            LET n == Len(movieKeys)
            IN /\ sel.a \in 0..(n - 1) /\ sel.b \in 0..(n - 1)
               /\ sel.den > 0
               /\ 0 <= sel.num /\ sel.num <= sel.den
               /\ (movieKeys[sel.a + 1].timeSec = movieKeys[sel.b + 1].timeSec
                     => sel.num = 0))
    /\ [][keyframe_idx' >= keyframe_idx]_vars


\* Two points no farther apart, in any coordinate, than a twentieth of the
\* camera's radius plus one unit: the room the fixed-point angles need.
NearFor(cam, p, q) == MaxAbs(VSub(p, q)) <= Div(cam.radius, 20) + Scale

\* C29: after setCamera(pos, target) with pos # target, updatePosition leaves
\* camera.position equal to pos.
C29_SetCameraDerivable ==
    (mpc = "readback" /\ camera.position # camera.target)
        => NearFor(camera, updatePosition(camera).position, camera.position)

=============================================================================
